---- MODULE Spec2Model ----
(***************************************************************************)
(* The query-answering core of the LLM Answer Engine:                      *)
(*   - POST /chat            (app/api/chat/route.ts)                       *)
(*   - processQuery          (app/action.tsx)                              *)
(*   - the search adapters   (tools/searchProviders)                       *)
(*   - streamingChatCompletion (tools/streamingChatCompletion)             *)
(*   - the middleware in front of the API routes (middleware)              *)
(* Text whose content is never inspected is represented by its length; an  *)
(* optional JavaScript value is <<>> (undefined/null) or <<v>>.            *)
(***************************************************************************)
EXTENDS Integers, Sequences, FiniteSets, TLC

VARIABLES
    \* ---- POST /chat (one request at a time per handler invocation)
    chatPc,             \* position of the handler
    req,                \* the request body as sent
    user,               \* session?.user            (<<>> or <<id>>)
    organizationId,     \* user?.organizationId     (<<>> or <<org>>)
    documents,          \* rows returned by prisma.document.findMany
    fullContext,        \* length of fullContext
    promptContext,      \* length of the context placed in the system prompt
    systemPrompt,       \* which of the two system prompts was built
    answer,             \* `response` of line 101 (<<>> before it is computed)
    calls,              \* collaborators invoked by this request, in order
    response,           \* the HTTP response returned (status 0: none yet)
    chatErr,            \* message of the exception caught at line 136
    thrown,             \* an exception left POST
    openaiKey,          \* process.env.OPENAI_API_KEY is set
    served,             \* requests answered so far
    failed,             \* history: the collaborators that failed during this request
    configFailedBefore, \* history: an earlier request ended in the missing-key branch
    apiKey,             \* `apiKey` of the middleware (<<>>: null, or not yet resolved)
    contextParts,       \* history: what fullContext was put together from
    \* ---- processQuery
    pqPc,               \* position of processQuery
    documentContextArg, \* the documentContext argument (<<>> or <<length>>)
    provider,           \* config.searchProvider
    providerUp,         \* the search provider can be reached during this query
    inferenceKey,       \* config.inferenceAPIKey is set
    callState,          \* the three promises handed to Promise.all
    callResult,         \* what each of them resolved to
    settleOrder,        \* history: the search calls in the order they came to an end
    fetches,            \* the endpoints each search call has sent a request to
    vectorResults,      \* the context entries given to streamingChatCompletion
    context,            \* length of `context` in streamingChatCompletion
    generations,        \* completion requests sent to the backend
    backendRaised,      \* history: the completion request was rejected
    pqResult,           \* the SearchResponse returned (returned = FALSE: none yet)
    pqThrown,           \* an exception left processQuery
    \* ---- one search adapter call on its own
    adPc,
    adCall,             \* [fn, provider, outcome]
    adResult,           \* [threw, value]
    \* ---- one call of streamingChatCompletion on its own
    scPc,               \* position of streamingChatCompletion
    streamable,         \* a sink was supplied (streaming mode)
    scKey,              \* config.inferenceAPIKey is set
    arrived,            \* history: the delta contents received from the backend, in order
    sink,               \* the llmResponseChunk values handed to streamable.update, in order
    fullResponse,       \* `fullResponse`
    requests,           \* completion requests sent to the backend
    scRaised,           \* history: where the backend failed ("none", "create", "stream")
    scResult,           \* [threw, value] once the call has come to an end
    \* ---- one context assembly on its own
    asmPc,
    asmCall,            \* [searchResults, documentContext]
    asmResult,          \* the vectorResults handed to the generator
    \* ---- document upload: concurrent requests of one organization, and the
    \*      background processing each of them starts
    upPc,               \* position of each upload handler
    upResp,             \* status each upload was answered with (0: none yet)
    extracted,          \* length of the text the processor extracts from each file
    docStatus,          \* status column of the document each upload created
    statusLog,          \* history: the values written to that status column
    procPc,             \* position of each processDocumentAsync
    entities,           \* processed.entities.length
    saved,              \* entities saved and linked so far
    documentsUsed,      \* organization.documentsUsed
    incremented,        \* history: the uploads that incremented documentsUsed
    usageLogged,        \* history: the uploads that wrote a usage record
    dbReachable,        \* the database can be reached
    \* ---- one call of the middleware on its own
    mwPc,
    mwReq,              \* [pathname, method, xApiKey, authorization, token]
    mwRes,              \* what the middleware returned for it
    \* ---- the usage tables of the database
    sqlPc,              \* position of each database session
    sqlRow,             \* the queries row each session inserted and has not committed
    queries,            \* committed rows of `queries`: how many of each
    usage_aggregations, \* committed rows of `usage_aggregations`, per (organization_id, date)
    inserted,           \* INSERT statements run so far
    lastCheck,          \* the last check_usage_limit call: [org_id, result]
    \* ---- the chat interface
    uiPc,               \* position of handleSubmit ("idle": none is running)
    messages,           \* `messages`
    input,              \* `input`
    isLoading,          \* `isLoading`, the state
    shownLoading,       \* `isLoading` as of the last render, which the handlers read
    apiResponse,        \* what processQuery returned to handleSubmit
    accepted            \* history: submits that passed the guard of line 182

chatVars == <<chatPc, req, user, organizationId, documents, fullContext,
              promptContext, systemPrompt, answer, calls, response, chatErr,
              thrown, openaiKey, served, failed, configFailedBefore, apiKey,
              contextParts>>

pqVars == <<pqPc, documentContextArg, provider, providerUp, inferenceKey, callState,
            callResult, settleOrder, fetches, vectorResults, context, generations, backendRaised,
            pqResult, pqThrown>>

adVars == <<adPc, adCall, adResult>>

scVars == <<scPc, streamable, scKey, arrived, sink, fullResponse, requests, scRaised,
            scResult>>

asmVars == <<asmPc, asmCall, asmResult>>

coreVars == <<chatVars, pqVars, adVars, scVars, asmVars>>

upVars == <<upPc, upResp, extracted, docStatus, statusLog, procPc, entities, saved,
            documentsUsed, incremented, usageLogged, dbReachable>>

mwVars == <<mwPc, mwReq, mwRes>>

sqlVars == <<sqlPc, sqlRow, queries, usage_aggregations, inserted, lastCheck>>

uiVars == <<uiPc, messages, input, isLoading, shownLoading, apiResponse, accepted>>

laterVars == <<upVars, mwVars, sqlVars, uiVars>>

vars == <<coreVars, laterVars>>

----------------------------------------------------------------------------
(* Bounds of the model *)

MaxRequests == 2
MaxDocIds == 2
MaxItems == 2
MaxMediaItems == 1
MaxPageLen == 12
ShortText == 40
LongText == 9000

(* Program constants *)

MaxContextChars == 8000
DocContentChars == 2000
MediaLimit == 4
NumberOfSimilarityResults == 4
PageSize == 10

----------------------------------------------------------------------------
(* JavaScript helpers *)

Min(a, b) == IF a < b THEN a ELSE b

\* String.prototype.includes
Includes(s, sub) ==
    \E i \in 1..(Len(s) - Len(sub) + 1) : SubSeq(s, i, i + Len(sub) - 1) = sub

\* length of `${v}` for an optional text of known length
RenderedLen(opt, whenAbsent) == IF opt = <<>> THEN whenAbsent ELSE opt[1]

RECURSIVE SumSeq(_)
SumSeq(s) == IF s = <<>> THEN 0 ELSE Head(s) + SumSeq(Tail(s))

RECURSIVE SeqsUpTo(_, _)
SeqsUpTo(S, n) ==
    IF n = 0 THEN {<<>>}
    ELSE LET shorter == SeqsUpTo(S, n - 1)
         IN  shorter \cup {Append(s, x) : s \in {t \in shorter : Len(t) = n - 1}, x \in S}

----------------------------------------------------------------------------
(* The document store as the chat handler sees it *)

StoreDocs ==
    << [id |-> "d1", organizationId |-> "orgA", status |-> "completed",
        originalName |-> "contract.pdf", category |-> <<"legal">>,
        summary |-> <<ShortText>>, textContent |-> <<LongText>>],
       [id |-> "d2", organizationId |-> "orgA", status |-> "completed",
        originalName |-> "scan.png", category |-> <<>>,
        summary |-> <<LongText>>, textContent |-> <<>>],
       [id |-> "d3", organizationId |-> "orgA", status |-> "processing",
        originalName |-> "draft.docx", category |-> <<>>,
        summary |-> <<>>, textContent |-> <<>>],
       [id |-> "d4", organizationId |-> "orgB", status |-> "completed",
        originalName |-> "notes.txt", category |-> <<"general">>,
        summary |-> <<ShortText>>, textContent |-> <<ShortText>>] >>

DocIds == {StoreDocs[i].id : i \in 1..Len(StoreDocs)}

\* (mutant) a lookup by id alone
FindManyById(ids, org) ==
    SelectSeq(StoreDocs, LAMBDA d : \E i \in 1..Len(ids) : ids[i] = d.id)

\* prisma.document.findMany({ where: { id: { in }, organizationId, status } })
FindMany(ids, org) ==
    SelectSeq(StoreDocs,
              LAMBDA d : /\ \E i \in 1..Len(ids) : ids[i] = d.id
                         /\ d.organizationId = org
                         /\ d.status = "completed")

\* one element of the template of lines 68-70
DocBlockLen(doc) ==
    Len("Document: ") + Len(doc.originalName)
    + Len("\nCategory: ") + (IF doc.category = <<>> THEN Len("null") ELSE Len(doc.category[1]))
    + Len("\nSummary: ") + RenderedLen(doc.summary, Len("null"))
    + Len("\nContent: ")
    + (IF doc.textContent = <<>> THEN Len("undefined")
       ELSE Min(doc.textContent[1], DocContentChars))
    + Len("...\n\n")

\* documents.map(...).join('')
BuildContext(docs) == SumSeq([i \in 1..Len(docs) |-> DocBlockLen(docs[i])])

\* documents.map(doc => ({ id, name, category, summary }))
SourceOf(doc) ==
    [id |-> doc.id, name |-> doc.originalName,
     category |-> doc.category, summary |-> doc.summary]

\* (mutant) the sources are listed last document first
SourcesReversed(docs) == [i \in 1..Len(docs) |-> SourceOf(docs[Len(docs) + 1 - i])]

Sources(docs) == [i \in 1..Len(docs) |-> SourceOf(docs[i])]

----------------------------------------------------------------------------
(* Requests *)

QueryInputs ==
    { [typ |-> "undefined", v |-> 0],
      [typ |-> "string", v |-> 0],
      [typ |-> "string", v |-> ShortText],
      [typ |-> "number", v |-> 0],
      [typ |-> "number", v |-> 1] }

\* !query
Falsy(q) == q.typ = "undefined" \/ q.v = 0

\* (mutant) the typeof test is left out
ValidQueryTruthy(q) == ~Falsy(q)

\* the test of line 32, negated
ValidQuery(q) == ~Falsy(q) /\ q.typ = "string"

DocumentContexts == {<<>>, <<0>>, <<ShortText>>, <<LongText>>}

DocIdLists == SeqsUpTo(DocIds, MaxDocIds)

BadBody ==
    [bodyOk |-> FALSE, query |-> [typ |-> "undefined", v |-> 0],
     documentContext |-> <<>>, documentIds |-> <<>>]

Requests ==
    {BadBody} \cup
    [bodyOk : {TRUE}, query : QueryInputs, documentContext : DocumentContexts,
     documentIds : {<<>>} \cup {<<l>> : l \in DocIdLists}]

\* `documentIds = []` in the destructuring of line 30
DocumentIdsOf(r) == IF r.documentIds = <<>> THEN <<>> ELSE r.documentIds[1]

\* (mutant) a missing documentContext is replaced by a placeholder text
ContextOrPlaceholder(r) == IF r.documentContext = <<>> THEN ShortText ELSE r.documentContext[1]

\* documentContext || ''
ContextOrEmpty(r) == IF r.documentContext = <<>> THEN 0 ELSE r.documentContext[1]

SessionOutcomes ==
    { [throws |-> TRUE,  user |-> <<>>,     org |-> <<>>],
      [throws |-> FALSE, user |-> <<>>,     org |-> <<>>],
      [throws |-> FALSE, user |-> <<"u0">>, org |-> <<>>],
      [throws |-> FALSE, user |-> <<"u1">>, org |-> <<"orgA">>],
      [throws |-> FALSE, user |-> <<"u2">>, org |-> <<"orgB">>] }

ChatOutcomes ==
    { [raises |-> TRUE,  msg |-> "Connection error.", content |-> <<>>],
      [raises |-> TRUE,  msg |-> "Incorrect OpenAI API key provided", content |-> <<>>],
      [raises |-> FALSE, msg |-> "", content |-> <<>>],
      [raises |-> FALSE, msg |-> "", content |-> <<"">>],
      [raises |-> FALSE, msg |-> "", content |-> <<"Paris is the capital of France.">>] }

----------------------------------------------------------------------------
(* Responses of POST /chat *)

KeyNotConfigured == "OpenAI API key not configured"
CouldNotGenerate == "I apologize, but I could not generate a response."
ServiceUnavailable ==
    "I apologize, but the AI service is currently unavailable. Please check the API configuration and try again."

\* the literal [] of a response body; a field that is left out is <<>>
EmptyArray == <<>>

NoResponse ==
    [status |-> 0, llmResponse |-> <<>>, error |-> <<>>, sources |-> <<>>,
     searchResults |-> <<>>, documentContext |-> <<>>]

\* NextResponse.json({ error }, { status })
ErrorResponse(status, msg) ==
    [status |-> status, llmResponse |-> <<>>, error |-> <<msg>>, sources |-> <<>>,
     searchResults |-> <<>>, documentContext |-> <<>>]

\* lines 127-134
AnswerResponse(text, docs, ctx) ==
    [status |-> 200, llmResponse |-> <<text>>, error |-> <<>>,
     sources |-> <<Sources(docs)>>, searchResults |-> <<EmptyArray>>,
     documentContext |-> <<IF ctx > 0 THEN "Document context used"
                           ELSE "No document context">>]

\* lines 140-148
FallbackResponse ==
    [status |-> 200, llmResponse |-> <<ServiceUnavailable>>, error |-> <<>>,
     sources |-> <<EmptyArray>>, searchResults |-> <<EmptyArray>>,
     documentContext |-> <<>>]

----------------------------------------------------------------------------
(* The middleware in front of the API routes *)

ApiRoutes == {"/api/search", "/api/chat", "/api/function-call"}

ValidKeys == {"sk-test-123456789", "sk-prod-987654321"}

\* request.headers.get('X-API-Key') and request.headers.get('Authorization')
XApiKeyHeaders == {<<>>, <<"">>, <<"sk-test-123456789">>, <<"sk-live-000">>}
AuthorizationHeaders == {<<>>, <<"Bearer sk-test-123456789">>, <<"Bearer sk-live-000">>}

StartsWith(s, prefix) == Len(s) >= Len(prefix) /\ SubSeq(s, 1, Len(prefix)) = prefix

\* String.prototype.replace(pattern, replacement) with a string pattern
Replace(s, pattern, replacement) ==
    LET at == {i \in 1..(Len(s) - Len(pattern) + 1) :
                  SubSeq(s, i, i + Len(pattern) - 1) = pattern}
    IN  IF at = {} THEN s
        ELSE LET i == CHOOSE j \in at : \A k \in at : j <= k
             IN  SubSeq(s, 1, i - 1) \o replacement \o SubSeq(s, i + Len(pattern), Len(s))

\* line 51
ResolveApiKey(xApiKey, authorization) ==
    IF xApiKey /= <<>> /\ xApiKey[1] /= "" THEN xApiKey
    ELSE IF authorization = <<>> THEN <<>>
    ELSE <<Replace(authorization[1], "Bearer ", "")>>

\* validateApiKey
ValidateApiKey(key) == key \in ValidKeys

Forward(key) == [next |-> TRUE, status |-> 0, error |-> "", apiKey |-> key]
Reject(status, msg, key) == [next |-> FALSE, status |-> status, error |-> msg, apiKey |-> key]

\* (mutant) the API routes are let through without a key
ApiMiddlewareOpen(pathname, method, xApiKey, authorization) ==
    IF method = "OPTIONS" THEN Reject(200, "", <<>>)
    ELSE Forward(<<>>)

\* lines 36-77: the branch of `middleware` for a pathname under /api/
ApiMiddleware(pathname, method, xApiKey, authorization) ==
    IF method = "OPTIONS" THEN Reject(200, "", <<>>)
    ELSE IF \E route \in ApiRoutes : StartsWith(pathname, route)
       THEN LET key == ResolveApiKey(xApiKey, authorization)
            IN  IF key = <<>> \/ key[1] = "" THEN Reject(401, "API key required", key)
                ELSE IF ~ValidateApiKey(key[1]) THEN Reject(401, "Invalid API key", key)
                ELSE Forward(key)
    ELSE Forward(<<>>)

----------------------------------------------------------------------------
(* POST /chat, one action per suspension point or block of the handler *)

\* (mutant) the throwing statement stands outside the try
ChatThrowUncaught(msg) ==
    /\ chatPc' = "done"
    /\ chatErr' = msg
    /\ thrown' = TRUE

\* a throw inside the try of line 17 lands in the catch of line 136
ChatThrow(msg) ==
    /\ chatPc' = "catch"
    /\ chatErr' = msg
    /\ thrown' = thrown

\* a request is taken up, the handler's locals in their initial state
ChatAccept(next) ==
    /\ chatPc = "idle"
    /\ served < MaxRequests
    /\ \E r \in Requests : req' = r
    /\ chatPc' = next
    /\ user' = <<>>
    /\ organizationId' = <<>>
    /\ documents' = <<>>
    /\ fullContext' = 0
    /\ promptContext' = 0
    /\ systemPrompt' = "none"
    /\ answer' = <<>>
    /\ calls' = <<>>
    /\ response' = NoResponse
    /\ chatErr' = ""
    /\ failed' = {}
    /\ apiKey' = <<>>
    /\ contextParts' = <<>>
    /\ UNCHANGED <<thrown, openaiKey, served, configFailedBefore>>
    /\ UNCHANGED <<pqVars, adVars, scVars, asmVars, laterVars>>

\* the route handler is invoked with a request
ChatReceive == ChatAccept("auth")

\* a request for /api/chat arrives at the deployment, in front of the middleware
ChatArrive == ChatAccept("middleware")

\* the middleware runs before the route handler
ChatMiddleware ==
    /\ chatPc = "middleware"
    /\ \E xApiKey \in XApiKeyHeaders, authorization \in AuthorizationHeaders :
          LET m == ApiMiddleware("/api/chat", "POST", xApiKey, authorization)
          IN  /\ apiKey' = m.apiKey
              /\ IF m.next
                    THEN /\ chatPc' = "auth"
                         /\ UNCHANGED <<response, served>>
                    ELSE /\ response' = ErrorResponse(m.status, m.error)
                         /\ chatPc' = "done"
                         /\ served' = served + 1
    /\ UNCHANGED <<req, user, organizationId, documents, fullContext, promptContext,
                   systemPrompt, answer, calls, chatErr, thrown, openaiKey, failed,
                   configFailedBefore>>
    /\ UNCHANGED <<contextParts, pqVars, adVars, scVars, asmVars, laterVars>>

\* lines 19-28
ChatAuth ==
    /\ chatPc = "auth"
    /\ calls' = Append(calls, "session")
    /\ \E s \in SessionOutcomes :
          /\ user' = s.user
          /\ organizationId' = s.org
          /\ failed' = IF s.throws THEN failed \cup {"session"} ELSE failed
    /\ chatPc' = "parse"
    /\ UNCHANGED <<req, documents, fullContext, promptContext, systemPrompt, answer,
                   response, chatErr, thrown, openaiKey, served, configFailedBefore>>
    /\ UNCHANGED <<apiKey, contextParts, pqVars, adVars, scVars, asmVars, laterVars>>

\* lines 30-34
ChatParse ==
    /\ chatPc = "parse"
    /\ IF ~req.bodyOk
          THEN /\ ChatThrow("Unexpected end of JSON input")
               /\ failed' = failed \cup {"body"}
               /\ UNCHANGED <<response, served>>
          ELSE IF ~ValidQuery(req.query)
                  THEN /\ response' = ErrorResponse(400, "Query is required")
                       /\ chatPc' = "done"
                       /\ served' = served + 1
                       /\ UNCHANGED <<chatErr, thrown, failed>>
                  ELSE /\ chatPc' = "docs"
                       /\ UNCHANGED <<response, served, chatErr, thrown, failed>>
    /\ UNCHANGED <<req, user, organizationId, documents, fullContext, promptContext,
                   systemPrompt, answer, calls, openaiKey, configFailedBefore>>
    /\ UNCHANGED <<apiKey, contextParts, pqVars, adVars, scVars, asmVars, laterVars>>

\* lines 36-71
ChatDocs ==
    /\ chatPc = "docs"
    /\ IF organizationId /= <<>> /\ Len(DocumentIdsOf(req)) > 0
          THEN /\ calls' = Append(calls, "docStore")
               /\ \/ /\ ChatThrow("Can't reach database server")
                     /\ failed' = failed \cup {"docStore"}
                     /\ UNCHANGED <<documents, fullContext, contextParts>>
                  \/ /\ documents' = FindMany(DocumentIdsOf(req), organizationId[1])
                     /\ fullContext' = BuildContext(documents')
                     /\ contextParts' = [i \in 1..Len(documents') |-> documents'[i].id]
                     /\ chatPc' = "prompt"
                     /\ UNCHANGED <<chatErr, thrown, failed>>
          ELSE /\ fullContext' = ContextOrEmpty(req)
               /\ contextParts' = IF ContextOrEmpty(req) > 0 THEN <<"documentContext">>
                                  ELSE <<>>
               /\ chatPc' = "prompt"
               /\ UNCHANGED <<documents, calls, chatErr, thrown, failed>>
    /\ UNCHANGED <<req, user, organizationId, promptContext, systemPrompt, answer,
                   response, openaiKey, served, configFailedBefore>>
    /\ UNCHANGED <<apiKey, pqVars, adVars, scVars, asmVars, laterVars>>

\* lines 73-99: the system prompt, getOpenAI and the completion request
ChatPrompt ==
    /\ chatPc = "prompt"
    /\ systemPrompt' = IF fullContext > 0 THEN "document" ELSE "general"
    /\ promptContext' = IF fullContext > 0 THEN Min(fullContext, MaxContextChars) ELSE 0
    /\ IF ~openaiKey
          THEN /\ ChatThrow(KeyNotConfigured)
               /\ failed' = failed \cup {"config"}
               /\ UNCHANGED calls
          ELSE /\ calls' = Append(calls, "generation")
               /\ chatPc' = "gen"
               /\ UNCHANGED <<chatErr, thrown, failed>>
    /\ UNCHANGED <<req, user, organizationId, documents, fullContext, answer,
                   response, openaiKey, served, configFailedBefore>>
    /\ UNCHANGED <<apiKey, contextParts, pqVars, adVars, scVars, asmVars, laterVars>>

\* lines 91-109: the completion settles
ChatGenerate ==
    /\ chatPc = "gen"
    /\ \E o \in ChatOutcomes :
          IF o.raises
             THEN /\ ChatThrow(o.msg)
                  /\ failed' = failed \cup {"generation"}
                  /\ UNCHANGED answer
             ELSE /\ answer' = IF o.content = <<>> \/ o.content[1] = ""
                                  THEN <<CouldNotGenerate>> ELSE o.content
                  /\ chatPc' = "usage"
                  /\ UNCHANGED <<chatErr, thrown, failed>>
    /\ UNCHANGED <<req, user, organizationId, documents, fullContext, promptContext,
                   systemPrompt, calls, response, openaiKey, served,
                   configFailedBefore>>
    /\ UNCHANGED <<apiKey, contextParts, pqVars, adVars, scVars, asmVars, laterVars>>

\* lines 111-125
ChatUsage ==
    /\ chatPc = "usage"
    /\ IF organizationId /= <<>> /\ user /= <<>>
          THEN /\ calls' = Append(calls, "usage")
               /\ \/ /\ ChatThrow("Can't reach database server")
                     /\ failed' = failed \cup {"usage"}
                  \/ /\ chatPc' = "respond"
                     /\ UNCHANGED <<chatErr, thrown, failed>>
          ELSE /\ chatPc' = "respond"
               /\ UNCHANGED <<calls, chatErr, thrown, failed>>
    /\ UNCHANGED <<req, user, organizationId, documents, fullContext, promptContext,
                   systemPrompt, answer, response, openaiKey, served,
                   configFailedBefore>>
    /\ UNCHANGED <<apiKey, contextParts, pqVars, adVars, scVars, asmVars, laterVars>>

\* lines 127-134
ChatRespond ==
    /\ chatPc = "respond"
    /\ response' = AnswerResponse(answer[1], documents, fullContext)
    /\ chatPc' = "done"
    /\ served' = served + 1
    /\ UNCHANGED <<req, user, organizationId, documents, fullContext, promptContext,
                   systemPrompt, answer, calls, chatErr, thrown, openaiKey,
                   failed, configFailedBefore>>
    /\ UNCHANGED <<apiKey, contextParts, pqVars, adVars, scVars, asmVars, laterVars>>

\* (mutant) the catch has no missing-key branch
ChatCatchAlways500 ==
    /\ chatPc = "catch"
    /\ response' = ErrorResponse(500, "Failed to process chat request")
    /\ configFailedBefore' = (configFailedBefore \/ chatErr = KeyNotConfigured)
    /\ chatPc' = "done"
    /\ served' = served + 1
    /\ UNCHANGED <<req, user, organizationId, documents, fullContext, promptContext,
                   systemPrompt, answer, calls, chatErr, thrown, openaiKey, failed>>
    /\ UNCHANGED <<apiKey, contextParts, pqVars, adVars, scVars, asmVars, laterVars>>

\* lines 136-154
ChatCatch ==
    /\ chatPc = "catch"
    /\ IF Includes(chatErr, "OpenAI API key")
          THEN response' = FallbackResponse
          ELSE response' = ErrorResponse(500, "Failed to process chat request")
    /\ configFailedBefore' = (configFailedBefore \/ chatErr = KeyNotConfigured)
    /\ chatPc' = "done"
    /\ served' = served + 1
    /\ UNCHANGED <<req, user, organizationId, documents, fullContext, promptContext,
                   systemPrompt, answer, calls, chatErr, thrown, openaiKey, failed>>
    /\ UNCHANGED <<apiKey, contextParts, pqVars, adVars, scVars, asmVars, laterVars>>

\* the response has been handed to the framework; the handler's locals are gone
ChatReturn ==
    /\ chatPc = "done"
    /\ chatPc' = "idle"
    /\ req' = BadBody
    /\ user' = <<>>
    /\ organizationId' = <<>>
    /\ documents' = <<>>
    /\ fullContext' = 0
    /\ promptContext' = 0
    /\ systemPrompt' = "none"
    /\ answer' = <<>>
    /\ calls' = <<>>
    /\ response' = NoResponse
    /\ chatErr' = ""
    /\ failed' = {}
    /\ apiKey' = <<>>
    /\ contextParts' = <<>>
    /\ UNCHANGED <<thrown, openaiKey, served, configFailedBefore>>
    /\ UNCHANGED <<pqVars, adVars, scVars, asmVars, laterVars>>

\* the deployment's environment is (re)configured between requests
Configure ==
    /\ chatPc = "idle"
    /\ served < MaxRequests
    /\ openaiKey' = ~openaiKey
    /\ UNCHANGED <<chatPc, req, user, organizationId, documents, fullContext,
                   promptContext, systemPrompt, answer, calls, response, chatErr,
                   thrown, served, failed, configFailedBefore>>
    /\ UNCHANGED <<apiKey, contextParts, pqVars, adVars, scVars, asmVars, laterVars>>

InitChat ==
    /\ chatPc = "idle"
    /\ req = BadBody
    /\ user = <<>>
    /\ organizationId = <<>>
    /\ documents = <<>>
    /\ fullContext = 0
    /\ promptContext = 0
    /\ systemPrompt = "none"
    /\ answer = <<>>
    /\ calls = <<>>
    /\ response = NoResponse
    /\ chatErr = ""
    /\ thrown = FALSE
    /\ openaiKey \in BOOLEAN
    /\ served = 0
    /\ failed = {}
    /\ configFailedBefore = FALSE
    /\ apiKey = <<>>
    /\ contextParts = <<>>

NextChat ==
    \/ ChatReceive
    \/ ChatAuth
    \/ ChatParse
    \/ ChatDocs
    \/ ChatPrompt
    \/ ChatGenerate
    \/ ChatUsage
    \/ ChatRespond
    \/ ChatCatch
    \/ ChatReturn
    \/ Configure

\* the request path of the deployment: the middleware, then the route handler
NextGateway ==
    \/ ChatArrive
    \/ ChatMiddleware
    \/ ChatAuth
    \/ ChatParse
    \/ ChatDocs
    \/ ChatPrompt
    \/ ChatGenerate
    \/ ChatUsage
    \/ ChatRespond
    \/ ChatCatch
    \/ ChatReturn
    \/ Configure


----------------------------------------------------------------------------
(* Provider payloads.  A text is [len, lit, url]: its length, its literal   *)
(* when the program fixes it (else ""), and whether `new URL(text)` accepts *)
(* it.                                                                      *)

Text(n) == [len |-> n, lit |-> "", url |-> FALSE]
Url(n) == [len |-> n, lit |-> "", url |-> TRUE]
Lit(s) == [len |-> Len(s), lit |-> s, url |-> FALSE]

\* length of `${v}` for an optional text
Rendered(opt) == IF opt = <<>> THEN Len("undefined") ELSE opt[1].len

\* a raw result: title, link (Brave: url), text (snippet/description), imageUrl
ItemPlain ==
    [title |-> <<Text(12)>>, link |-> <<Url(24)>>, host |-> 11,
     text |-> <<Text(ShortText)>>, imageUrl |-> <<Url(30)>>]
ItemBadLink ==
    [title |-> <<Text(12)>>, link |-> <<Text(7)>>, host |-> 0,
     text |-> <<Text(ShortText)>>, imageUrl |-> <<Url(30)>>]
ItemLong ==
    [title |-> <<Text(12)>>, link |-> <<Url(24)>>, host |-> 11,
     text |-> <<Text(LongText)>>, imageUrl |-> <<Url(30)>>]

Items == {ItemPlain, ItemBadLink, ItemLong}

Repeat(x, n) == [i \in 1..n |-> x]

\* what one fetch of a provider endpoint can come to
Failure(kind) == [kind |-> kind, items |-> <<>>]
Payload(items) == [kind |-> "array", items |-> items]

FailureKinds ==
    {"networkError", "non2xx", "jsonReject", "nullBody", "fieldMissing", "fieldNotArray"}

QueryOutcomes ==
    {Failure(k) : k \in FailureKinds} \cup {Payload(s) : s \in SeqsUpTo(Items, MaxItems)}

\* the image and video endpoints, as processQuery meets them
MediaOutcomes ==
    {Failure(k) : k \in FailureKinds} \cup {Payload(s) : s \in SeqsUpTo(Items, MaxMediaItems)}

AdapterOutcomes ==
    QueryOutcomes \cup {Payload(Repeat(ItemPlain, n)) : n \in 1..MaxPageLen}

Providers == {"serper", "brave"}
SearchCalls == {"web", "images", "videos"}

----------------------------------------------------------------------------
(* The search adapters.  Each returns [threw, value].                       *)

Returned(v) == [threw |-> FALSE, value |-> v]
Threw == [threw |-> TRUE, value |-> <<>>]

\* new URL(link) accepts the link
ValidUrl(link) == link /= <<>> /\ link[1].url

FaviconPrefix == "https://www.google.com/s2/favicons?domain="

ToSearchResult(item) ==
    [title |-> item.title, link |-> item.link, snippet |-> item.text,
     favicon |-> Len(FaviconPrefix) + item.host]

ToImageResult(item) ==
    [title |-> item.title, imageUrl |-> item.imageUrl, sourceUrl |-> item.link]

ToVideoResult(item) ==
    [title |-> item.title, link |-> item.link, thumbnail |-> item.imageUrl]

\* (mutant) no slice
FirstNUnsliced(s, n) == s

\* slice(0, n)
FirstN(s, n) == SubSeq(s, 1, Min(Len(s), n))

\* (mutant) the results are returned last entry first
GetSerperResultsReversed(o) ==
    IF o.kind \in FailureKinds THEN Returned(<<>>)
    ELSE Returned([i \in 1..Len(o.items) |->
                     ToSearchResult(o.items[Len(o.items) + 1 - i])])

\* getSerperResults: fetch, response.ok, response.json(), data.organic?.map
GetSerperResults(o) ==
    CASE o.kind \in {"networkError", "non2xx", "jsonReject", "nullBody", "fieldNotArray"}
            -> Threw
      [] o.kind = "fieldMissing" -> Returned(<<>>)
      [] OTHER ->
            IF \E i \in 1..Len(o.items) : ~ValidUrl(o.items[i].link)
               THEN Threw
               ELSE Returned([i \in 1..Len(o.items) |-> ToSearchResult(o.items[i])])

\* getBraveResults: the same steps over data.web?.results (url, description)
GetBraveResults(o) ==
    CASE o.kind \in {"networkError", "non2xx", "jsonReject", "nullBody", "fieldNotArray"}
            -> Threw
      [] o.kind = "fieldMissing" -> Returned(<<>>)
      [] OTHER ->
            IF \E i \in 1..Len(o.items) : ~ValidUrl(o.items[i].link)
               THEN Threw
               ELSE Returned([i \in 1..Len(o.items) |-> ToSearchResult(o.items[i])])

\* the try of getSearchResults
SearchBody(p, o) ==
    IF p = "serper" THEN GetSerperResults(o)
    ELSE IF p = "brave" THEN GetBraveResults(o)
    ELSE Returned(<<>>)

\* (mutant) no catch
CatchNothing(r) == r

\* try { ... } catch { return [] }
CatchAll(r) == IF r.threw THEN Returned(<<>>) ELSE r

\* (mutant) getSearchResults without its try/catch
GetSearchResultsUncaught(p, o) == SearchBody(p, o)

GetSearchResults(p, o) == CatchAll(SearchBody(p, o))

\* the try of getImages: data.images?.slice(0, 4).map(...)
ImagesBody(p, o) ==
    IF p = "serper"
       THEN CASE o.kind \in {"networkError", "jsonReject", "nullBody", "fieldNotArray"}
                    -> Threw
              [] o.kind \in {"non2xx", "fieldMissing"} -> Returned(<<>>)
              [] OTHER ->
                    LET first == FirstN(o.items, MediaLimit)
                    IN  Returned([i \in 1..Len(first) |-> ToImageResult(first[i])])
       ELSE Returned(<<>>)

GetImages(p, o) == CatchAll(ImagesBody(p, o))

\* the try of getVideos: data.videos?.slice(0, 4).map(...)
VideosBody(p, o) ==
    IF p = "serper"
       THEN CASE o.kind \in {"networkError", "jsonReject", "nullBody", "fieldNotArray"}
                    -> Threw
              [] o.kind \in {"non2xx", "fieldMissing"} -> Returned(<<>>)
              [] OTHER ->
                    LET first == FirstN(o.items, MediaLimit)
                    IN  Returned([i \in 1..Len(first) |-> ToVideoResult(first[i])])
       ELSE Returned(<<>>)

GetVideos(p, o) == CatchAll(VideosBody(p, o))

Adapter(fn, p, o) ==
    CASE fn = "web" -> GetSearchResults(p, o)
      [] fn = "images" -> GetImages(p, o)
      [] OTHER -> GetVideos(p, o)

SerperHost == "https://google.serper.dev/"
BraveHost == "https://api.search.brave.com/"

\* (mutant) a web search that also asks the provider that is not configured
FetchesWithFallback(fn, p) ==
    IF fn = "web"
       THEN <<SerperHost \o "search", BraveHost \o "res/v1/web/search">>
       ELSE (IF p = "serper" THEN <<SerperHost \o fn>> ELSE <<>>)

\* the endpoints one adapter call sends a request to, in order
Fetches(fn, p) ==
    IF fn = "web"
       THEN (IF p = "serper" THEN <<SerperHost \o "search">>
             ELSE IF p = "brave" THEN <<BraveHost \o "res/v1/web/search">>
             ELSE <<>>)
       ELSE (IF p = "serper" THEN <<SerperHost \o fn>> ELSE <<>>)

----------------------------------------------------------------------------
(* One adapter call on its own: the inputs are drawn by AdapterInit *)

AdapterRun ==
    /\ adPc = "ready"
    /\ adResult' = Adapter(adCall.fn, adCall.provider, adCall.outcome)
    /\ adPc' = "done"
    /\ UNCHANGED <<adCall, chatVars, pqVars, scVars, asmVars, laterVars>>

NoAdapterCall == [fn |-> "web", provider |-> "serper", outcome |-> Failure("networkError")]

AdapterOff ==
    /\ adPc = "off"
    /\ adCall = NoAdapterCall
    /\ adResult = Returned(<<>>)

AdapterInit ==
    /\ adPc = "ready"
    /\ adCall \in [fn : SearchCalls, provider : Providers, outcome : AdapterOutcomes]
    /\ adResult = Returned(<<>>)

----------------------------------------------------------------------------
(* streamingChatCompletion, as processQuery calls it (streamable = null) *)

GenerationError ==
    "I apologize, but I encountered an error processing your request. Please try again."
NoResponseGenerated == "No response generated."

\* `Source: ${result.title} (${result.url})\n${result.content}`
EntryLen(e) ==
    Len("Source: ") + Rendered(e.title) + Len(" (") + Rendered(e.url) + Len(")\n")
    + Rendered(e.content)

\* vectorResults.map(...).join('\n\n')
ContextLen(entries) ==
    IF entries = <<>> THEN 0
    ELSE SumSeq([i \in 1..Len(entries) |-> EntryLen(entries[i])])
         + Len("\n\n") * (Len(entries) - 1)

\* completion.choices[0]?.message?.content || 'No response generated.'
CompletionText(o) ==
    IF o.content = <<>> \/ o.content[1] = "" THEN NoResponseGenerated ELSE o.content[1]

\* the try/catch of lines 37-82 around the completion request
ChatCompletion(o) == IF o.raises THEN GenerationError ELSE CompletionText(o)

----------------------------------------------------------------------------
(* processQuery *)

ToVectorResult(result) ==
    [content |-> result.snippet, url |-> result.link, title |-> result.title]

\* processContent
ProcessContent(searchResults) ==
    LET first == FirstN(searchResults, NumberOfSimilarityResults)
    IN  [i \in 1..Len(first) |-> ToVectorResult(first[i])]

UploadedDocument(ctx) ==
    [content |-> <<Text(ctx)>>, url |-> <<Lit("uploaded-document")>>,
     title |-> <<Lit("Uploaded Document")>>]

\* `if (documentContext)`
Truthy(ctx) == ctx /= <<>> /\ ctx[1] > 0

\* (mutant) the uploaded document is put in front of the search results
AssembleContextDocumentFirst(searchResults, documentContext) ==
    IF Truthy(documentContext)
       THEN <<UploadedDocument(documentContext[1])>> \o ProcessContent(searchResults)
       ELSE ProcessContent(searchResults)

\* lines 39-49: processContent, then the push of the uploaded document
AssembleContext(searchResults, documentContext) ==
    IF Truthy(documentContext)
       THEN Append(ProcessContent(searchResults), UploadedDocument(documentContext[1]))
       ELSE ProcessContent(searchResults)

NoResult ==
    [returned |-> FALSE, searchResults |-> <<>>, images |-> <<>>, videos |-> <<>>,
     llmResponse |-> "", error |-> <<>>]

\* a throw inside the try of line 31 lands in the catch of line 60
PqThrow ==
    /\ pqPc' = "catch"
    /\ pqThrown' = pqThrown

\* (mutant) Promise.race/any in place of Promise.all
AnySettled == \E c \in SearchCalls : callState[c] = "settled"

\* Promise.all resolves once every promise has
AllSettled == \A c \in SearchCalls : callState[c] = "settled"

\* lines 30-37: the three search calls are started
PqStart ==
    /\ pqPc = "idle"
    /\ \E ctx \in DocumentContexts : documentContextArg' = ctx
    /\ \E up \in BOOLEAN : providerUp' = up
    /\ callState' = [c \in SearchCalls |-> "pending"]
    /\ fetches' = [c \in SearchCalls |-> Fetches(c, provider)]
    /\ pqPc' = "gather"
    /\ UNCHANGED <<provider, inferenceKey, callResult, settleOrder, vectorResults, context,
                   generations, backendRaised, pqResult, pqThrown, chatVars, adVars, scVars, asmVars, laterVars>>

\* one of the three search calls comes to its end
PqSettle(c) ==
    /\ pqPc = "gather"
    /\ callState[c] = "pending"
    /\ \E o \in (IF c = "web" THEN QueryOutcomes ELSE MediaOutcomes) :
          /\ providerUp \/ o.kind = "networkError"
          /\ LET r == Adapter(c, provider, o)
             IN  /\ callState' = [callState EXCEPT ![c] = IF r.threw THEN "rejected"
                                                          ELSE "settled"]
                 /\ callResult' = [callResult EXCEPT ![c] = r.value]
    /\ settleOrder' = Append(settleOrder, c)
    /\ UNCHANGED <<pqPc, documentContextArg, provider, providerUp, inferenceKey, fetches,
                   vectorResults, context, generations, backendRaised, pqResult,
                   pqThrown, chatVars, adVars, scVars, asmVars, laterVars>>

\* line 33: await Promise.all([...])
PqJoin ==
    /\ pqPc = "gather"
    /\ IF \E c \in SearchCalls : callState[c] = "rejected"
          THEN PqThrow
          ELSE /\ AllSettled
               /\ pqPc' = "assemble"
               /\ UNCHANGED pqThrown
    /\ UNCHANGED <<documentContextArg, provider, providerUp, inferenceKey, callState,
                   callResult, settleOrder, fetches, vectorResults, context, generations,
                   backendRaised, pqResult, chatVars, adVars, scVars, asmVars, laterVars>>

\* lines 39-52, and streamingChatCompletion up to its completion request
PqAssemble ==
    /\ pqPc = "assemble"
    /\ vectorResults' = AssembleContext(callResult["web"], documentContextArg)
    /\ \/ /\ ~inferenceKey          \* new OpenAI({ apiKey: undefined }) throws
          /\ PqThrow
          /\ UNCHANGED <<context, generations>>
       \/ /\ context' = ContextLen(vectorResults')
          /\ generations' = generations + 1
          /\ pqPc' = "generate"
          /\ UNCHANGED pqThrown
    /\ UNCHANGED <<documentContextArg, provider, providerUp, inferenceKey, callState,
                   callResult, settleOrder, fetches, backendRaised, pqResult, chatVars, adVars, scVars, asmVars, laterVars>>

\* the completion request comes to its end; lines 54-59
PqGenerate ==
    /\ pqPc = "generate"
    /\ \E o \in ChatOutcomes :
          /\ inferenceKey \/ o.raises
          /\ backendRaised' = o.raises
          /\ pqResult' = [returned |-> TRUE,
                          searchResults |-> callResult["web"],
                          images |-> callResult["images"],
                          videos |-> callResult["videos"],
                          llmResponse |-> ChatCompletion(o),
                          error |-> <<>>]
    /\ pqPc' = "done"
    /\ UNCHANGED <<documentContextArg, provider, providerUp, inferenceKey, callState,
                   callResult, settleOrder, fetches, vectorResults, context, generations, pqThrown,
                   chatVars, adVars, scVars, asmVars, laterVars>>

\* lines 60-68
PqCatch ==
    /\ pqPc = "catch"
    /\ pqResult' = [returned |-> TRUE, searchResults |-> <<>>, images |-> <<>>,
                    videos |-> <<>>, llmResponse |-> "",
                    error |-> <<"An error occurred processing your request.">>]
    /\ pqPc' = "done"
    /\ UNCHANGED <<documentContextArg, provider, providerUp, inferenceKey, callState,
                   callResult, settleOrder, fetches, vectorResults, context, generations,
                   backendRaised, pqThrown, chatVars, adVars, scVars, asmVars, laterVars>>

PqOff ==
    /\ pqPc = "off"
    /\ documentContextArg = <<>>
    /\ provider = "serper"
    /\ providerUp = TRUE
    /\ inferenceKey = TRUE
    /\ callState = [c \in SearchCalls |-> "none"]
    /\ callResult = [c \in SearchCalls |-> <<>>]
    /\ settleOrder = <<>>
    /\ fetches = [c \in SearchCalls |-> <<>>]
    /\ vectorResults = <<>>
    /\ context = 0
    /\ generations = 0
    /\ backendRaised = FALSE
    /\ pqResult = NoResult
    /\ pqThrown = FALSE

InitQuery ==
    /\ pqPc = "idle"
    /\ documentContextArg = <<>>
    /\ provider \in Providers
    /\ providerUp = TRUE
    /\ inferenceKey \in BOOLEAN
    /\ callState = [c \in SearchCalls |-> "none"]
    /\ callResult = [c \in SearchCalls |-> <<>>]
    /\ settleOrder = <<>>
    /\ fetches = [c \in SearchCalls |-> <<>>]
    /\ vectorResults = <<>>
    /\ context = 0
    /\ generations = 0
    /\ backendRaised = FALSE
    /\ pqResult = NoResult
    /\ pqThrown = FALSE

NextQuery ==
    \/ PqStart
    \/ \E c \in SearchCalls : PqSettle(c)
    \/ PqJoin
    \/ PqAssemble
    \/ PqGenerate
    \/ PqCatch

----------------------------------------------------------------------------
(* The context assembly of processQuery on its own, over result lists       *)
(* longer than config.numberOfSimilarityResults                             *)

MaxResults == 6

\* n search results told apart by their titles
Numbered(n) == [i \in 1..n |-> ToSearchResult([ItemPlain EXCEPT !.title = <<Text(i)>>])]

Reverse(s) == [i \in 1..Len(s) |-> s[Len(s) + 1 - i]]

\* what getSearchResults can hand to processContent
SearchResultLists ==
    {Numbered(n) : n \in 0..MaxResults}
    \cup {Reverse(Numbered(n)) : n \in 0..MaxResults}
    \cup {Repeat(ToSearchResult(ItemPlain), n) : n \in 0..MaxResults}
    \cup {[i \in 1..Len(s) |-> ToSearchResult(s[i])] : s \in SeqsUpTo(Items, MaxItems)}

AsmRun ==
    /\ asmPc = "ready"
    /\ asmResult' = AssembleContext(asmCall.searchResults, asmCall.documentContext)
    /\ asmPc' = "done"
    /\ UNCHANGED <<asmCall, chatVars, pqVars, adVars, scVars, laterVars>>

AsmOff ==
    /\ asmPc = "off"
    /\ asmCall = [searchResults |-> <<>>, documentContext |-> <<>>]
    /\ asmResult = <<>>

AsmInit ==
    /\ asmPc = "ready"
    /\ asmCall \in [searchResults : SearchResultLists, documentContext : DocumentContexts]
    /\ asmResult = <<>>

----------------------------------------------------------------------------
(* streamingChatCompletion on its own, in both modes.  A streamed text is   *)
(* kept as a string, so that concatenation and order can be observed.       *)

MaxChunks == 3

\* chunk.choices[0]?.delta?.content of the chunks a backend sends
DeltaContents == {<<>>, <<"">>, <<"Paris">>, <<" is">>}

\* `chunk.choices[0]?.delta?.content || ''`
ContentOf(delta) == IF delta = <<>> THEN "" ELSE delta[1]

\* (mutant) the newest chunk is put in front of the earlier ones
UpdateInFront(updates, content) ==
    IF content /= "" THEN <<content>> \o updates ELSE updates

\* `if (content) { ...; streamable.update({ llmResponseChunk: content }) }`
Update(updates, content) ==
    IF content /= "" THEN Append(updates, content) ELSE updates

Pending == [settled |-> FALSE, threw |-> FALSE, value |-> ""]
Resolved(text) == [settled |-> TRUE, threw |-> FALSE, value |-> text]
Rejected == [settled |-> TRUE, threw |-> TRUE, value |-> ""]

\* (mutant) the awaited call stands outside the try
ScRaiseUncaught ==
    /\ scPc' = "done"
    /\ scResult' = Rejected

\* a rejection inside the try of line 37 lands in the catch of line 75
ScRaise ==
    /\ scPc' = "catch"
    /\ scResult' = scResult

\* lines 15-38: the client, the prompt, and the completion request is sent
ScStart ==
    /\ scPc = "ready"
    /\ IF ~scKey
          THEN /\ scPc' = "done"      \* new OpenAI({ apiKey: undefined }) throws
               /\ scResult' = Rejected
               /\ UNCHANGED requests
          ELSE /\ scPc' = "create"
               /\ requests' = requests + 1
               /\ UNCHANGED scResult
    /\ UNCHANGED <<streamable, scKey, arrived, sink, fullResponse, scRaised>>
    /\ UNCHANGED <<chatVars, pqVars, adVars, asmVars, laterVars>>

\* lines 39-48 and 61-73: `await openai.chat.completions.create(...)` settles
ScCreate ==
    /\ scPc = "create"
    /\ \E o \in ChatOutcomes :
          IF o.raises
             THEN /\ ScRaise
                  /\ scRaised' = "create"
             ELSE /\ IF streamable
                        THEN /\ scPc' = "stream"
                             /\ UNCHANGED scResult
                        ELSE /\ scPc' = "done"
                             /\ scResult' = Resolved(CompletionText(o))
                  /\ UNCHANGED scRaised
    /\ UNCHANGED <<streamable, scKey, arrived, sink, fullResponse, requests>>
    /\ UNCHANGED <<chatVars, pqVars, adVars, asmVars, laterVars>>

\* lines 51-57: one turn of the `for await` loop
ScChunk ==
    /\ scPc = "stream"
    /\ Len(arrived) < MaxChunks
    /\ \E delta \in DeltaContents :
          /\ arrived' = Append(arrived, delta)
          /\ fullResponse' = fullResponse \o ContentOf(delta)
          /\ sink' = Update(sink, ContentOf(delta))
    /\ UNCHANGED <<scPc, streamable, scKey, requests, scRaised, scResult>>
    /\ UNCHANGED <<chatVars, pqVars, adVars, asmVars, laterVars>>

\* line 59: the stream is exhausted
ScStreamEnd ==
    /\ scPc = "stream"
    /\ scResult' = Resolved(fullResponse)
    /\ scPc' = "done"
    /\ UNCHANGED <<streamable, scKey, arrived, sink, fullResponse, requests, scRaised>>
    /\ UNCHANGED <<chatVars, pqVars, adVars, asmVars, laterVars>>

\* line 51: the iterator rejects in the middle of the stream
ScStreamError ==
    /\ scPc = "stream"
    /\ ScRaise
    /\ scRaised' = "stream"
    /\ UNCHANGED <<streamable, scKey, arrived, sink, fullResponse, requests>>
    /\ UNCHANGED <<chatVars, pqVars, adVars, asmVars, laterVars>>

\* lines 75-82
ScCatch ==
    /\ scPc = "catch"
    /\ sink' = IF streamable THEN Append(sink, GenerationError) ELSE sink
    /\ scResult' = Resolved(GenerationError)
    /\ scPc' = "done"
    /\ UNCHANGED <<streamable, scKey, arrived, fullResponse, requests, scRaised>>
    /\ UNCHANGED <<chatVars, pqVars, adVars, asmVars, laterVars>>

ScOff ==
    /\ scPc = "off"
    /\ streamable = FALSE
    /\ scKey = TRUE
    /\ arrived = <<>>
    /\ sink = <<>>
    /\ fullResponse = ""
    /\ requests = 0
    /\ scRaised = "none"
    /\ scResult = Pending

ScInit ==
    /\ scPc = "ready"
    /\ streamable \in BOOLEAN
    /\ scKey \in BOOLEAN
    /\ arrived = <<>>
    /\ sink = <<>>
    /\ fullResponse = ""
    /\ requests = 0
    /\ scRaised = "none"
    /\ scResult = Pending

NextStreaming ==
    \/ ScStart
    \/ ScCreate
    \/ ScChunk
    \/ ScStreamEnd
    \/ ScStreamError
    \/ ScCatch

----------------------------------------------------------------------------
(* Document upload (app/api/chat/route.ts, lines 156-412): two concurrent    *)
(* upload requests of one organization and the background processing of the *)
(* documents they create.  A document is named after the request that        *)
(* created it.                                                               *)

Uploads == {"up1", "up2"}

DocumentsLimit == 5
MinTextChars == 10
MaxEntities == 2

UploadSessions == {"none", "noOrganization", "organizationGone", "member"}
UploadFiles == {"missing", "tooLarge", "unsupportedType", "ok"}
TextLengths == {0, MinTextChars - 1, ShortText}
StorageOutcomes == {"configMissing", "uploadError", "stored"}

\* a database call may be rejected only while the database cannot be reached
MayReject == ~dbReachable

\* return NextResponse.json(..., { status })
UpRespond(u, status) ==
    /\ upResp' = [upResp EXCEPT ![u] = status]
    /\ upPc' = [upPc EXCEPT ![u] = "done"]

\* lines 179-239: the status of the early return, 0 when there is none
RejectedBeforeCreate(session, file, used) ==
    CASE session = "none" -> 401
      [] session = "noOrganization" -> 400
      [] session = "organizationGone" -> 404
      [] used >= DocumentsLimit -> 403
      [] file /= "ok" -> 400
      [] OTHER -> 0

\* lines 177-239: session, organization, document limit, form data, file checks
UpCheck(u) ==
    /\ upPc[u] = "start"
    /\ \E session \in UploadSessions, file \in UploadFiles, n \in TextLengths :
          \/ /\ MayReject /\ session \in {"organizationGone", "member"}
             /\ UpRespond(u, 500)
             /\ UNCHANGED extracted
          \/ LET status == RejectedBeforeCreate(session, file, documentsUsed)
             IN  IF status /= 0
                    THEN UpRespond(u, status) /\ UNCHANGED extracted
                    ELSE /\ upPc' = [upPc EXCEPT ![u] = "create"]
                         /\ extracted' = [extracted EXCEPT ![u] = n]
                         /\ UNCHANGED upResp
    /\ UNCHANGED <<docStatus, statusLog, procPc, entities, saved, documentsUsed,
                   incremented, usageLogged, dbReachable>>
    /\ UNCHANGED <<coreVars, mwVars, sqlVars, uiVars>>

\* lines 241-253: prisma.document.create({ ..., status: 'processing' })
UpCreate(u) ==
    /\ upPc[u] = "create"
    /\ \/ /\ MayReject
          /\ UpRespond(u, 500)
          /\ UNCHANGED <<docStatus, statusLog>>
       \/ /\ docStatus' = [docStatus EXCEPT ![u] = "processing"]
          /\ statusLog' = [statusLog EXCEPT ![u] = Append(@, "processing")]
          /\ upPc' = [upPc EXCEPT ![u] = "store"]
          /\ UNCHANGED upResp
    /\ UNCHANGED <<extracted, procPc, entities, saved, documentsUsed, incremented,
                   usageLogged, dbReachable>>
    /\ UNCHANGED <<coreVars, mwVars, sqlVars, uiVars>>

\* lines 255-275: getSupabaseClient, storage upload, delete on uploadError
UpStore(u) ==
    /\ upPc[u] = "store"
    /\ \E outcome \in StorageOutcomes :
          CASE outcome = "configMissing" ->
                  UpRespond(u, 500) /\ UNCHANGED docStatus
            [] outcome = "uploadError" ->
                  /\ UpRespond(u, 500)
                  /\ \/ MayReject /\ UNCHANGED docStatus
                     \/ docStatus' = [docStatus EXCEPT ![u] = "deleted"]
            [] OTHER ->
                  /\ upPc' = [upPc EXCEPT ![u] = "url"]
                  /\ UNCHANGED <<upResp, docStatus>>
    /\ UNCHANGED <<extracted, statusLog, procPc, entities, saved, documentsUsed,
                   incremented, usageLogged, dbReachable>>
    /\ UNCHANGED <<coreVars, mwVars, sqlVars, uiVars>>

\* lines 277-288: the file URL is saved and processDocumentAsync is started
UpFileUrl(u) ==
    /\ upPc[u] = "url"
    /\ \/ /\ MayReject
          /\ UpRespond(u, 500)
          /\ UNCHANGED procPc
       \/ /\ procPc' = [procPc EXCEPT ![u] = "run"]
          /\ upPc' = [upPc EXCEPT ![u] = "increment"]
          /\ UNCHANGED upResp
    /\ UNCHANGED <<extracted, docStatus, statusLog, entities, saved, documentsUsed,
                   incremented, usageLogged, dbReachable>>
    /\ UNCHANGED <<coreVars, mwVars, sqlVars, uiVars>>

\* lines 290-294: documentsUsed: { increment: 1 }
UpIncrement(u) ==
    /\ upPc[u] = "increment"
    /\ \/ /\ MayReject
          /\ UpRespond(u, 500)
          /\ UNCHANGED <<documentsUsed, incremented>>
       \/ /\ documentsUsed' = documentsUsed + 1
          /\ incremented' = incremented \cup {u}
          /\ upPc' = [upPc EXCEPT ![u] = "usage"]
          /\ UNCHANGED upResp
    /\ UNCHANGED <<extracted, docStatus, statusLog, procPc, entities, saved,
                   usageLogged, dbReachable>>
    /\ UNCHANGED <<coreVars, mwVars, sqlVars, uiVars>>

\* lines 296-320: the usage record, then the 200 response
UpUsage(u) ==
    /\ upPc[u] = "usage"
    /\ \/ /\ MayReject
          /\ UpRespond(u, 500)
          /\ UNCHANGED usageLogged
       \/ /\ usageLogged' = usageLogged \cup {u}
          /\ UpRespond(u, 200)
    /\ UNCHANGED <<extracted, docStatus, statusLog, procPc, entities, saved,
                   documentsUsed, incremented, dbReachable>>
    /\ UNCHANGED <<coreVars, mwVars, sqlVars, uiVars>>

\* DocumentProcessor.processDocument returns or throws (lines 341, and
\* document-processor.ts 43-97: a text of fewer than 10 characters throws)
ProcRun(u) ==
    /\ procPc[u] = "run"
    /\ \/ /\ procPc' = [procPc EXCEPT ![u] = "catch"]
          /\ UNCHANGED entities
       \/ /\ extracted[u] >= MinTextChars
          /\ \E n \in 0..MaxEntities : entities' = [entities EXCEPT ![u] = n]
          /\ procPc' = [procPc EXCEPT ![u] = "complete"]
    /\ UNCHANGED <<upPc, upResp, extracted, docStatus, statusLog, saved, documentsUsed,
                   incremented, usageLogged, dbReachable>>
    /\ UNCHANGED <<coreVars, mwVars, sqlVars, uiVars>>

\* lines 346-360: prisma.document.update({ status: 'completed', ... })
ProcComplete(u) ==
    /\ procPc[u] = "complete"
    /\ \/ /\ MayReject
          /\ procPc' = [procPc EXCEPT ![u] = "catch"]
          /\ UNCHANGED <<docStatus, statusLog>>
       \/ /\ docStatus' = [docStatus EXCEPT ![u] = "completed"]
          /\ statusLog' = [statusLog EXCEPT ![u] = Append(@, "completed")]
          /\ procPc' = [procPc EXCEPT ![u] = IF entities[u] = 0 THEN "done"
                                             ELSE "entities"]
    /\ UNCHANGED <<upPc, upResp, extracted, entities, saved, documentsUsed,
                   incremented, usageLogged, dbReachable>>
    /\ UNCHANGED <<coreVars, mwVars, sqlVars, uiVars>>

\* lines 362-397: one turn of the loop over processed.entities
ProcEntity(u) ==
    /\ procPc[u] = "entities"
    /\ \/ /\ MayReject
          /\ procPc' = [procPc EXCEPT ![u] = "catch"]
          /\ UNCHANGED saved
       \/ /\ saved' = [saved EXCEPT ![u] = @ + 1]
          /\ procPc' = [procPc EXCEPT ![u] = IF saved[u] + 1 = entities[u] THEN "done"
                                             ELSE "entities"]
    /\ UNCHANGED <<upPc, upResp, extracted, docStatus, statusLog, entities,
                   documentsUsed, incremented, usageLogged, dbReachable>>
    /\ UNCHANGED <<coreVars, mwVars, sqlVars, uiVars>>

\* (mutant) a catch that only logs
ProcCatchLogOnly(u) ==
    /\ procPc[u] = "catch"
    /\ procPc' = [procPc EXCEPT ![u] = "done"]
    /\ UNCHANGED <<upPc, upResp, extracted, docStatus, statusLog, entities, saved,
                   documentsUsed, incremented, usageLogged, dbReachable>>
    /\ UNCHANGED <<coreVars, mwVars, sqlVars, uiVars>>

\* lines 401-411: the catch sets status 'failed'; its own rejection is unhandled
ProcCatch(u) ==
    /\ procPc[u] = "catch"
    /\ \/ /\ MayReject
          /\ procPc' = [procPc EXCEPT ![u] = "crashed"]
          /\ UNCHANGED <<docStatus, statusLog>>
       \/ /\ docStatus' = [docStatus EXCEPT ![u] = "failed"]
          /\ statusLog' = [statusLog EXCEPT ![u] = Append(@, "failed")]
          /\ procPc' = [procPc EXCEPT ![u] = "done"]
    /\ UNCHANGED <<upPc, upResp, extracted, entities, saved, documentsUsed,
                   incremented, usageLogged, dbReachable>>
    /\ UNCHANGED <<coreVars, mwVars, sqlVars, uiVars>>

UploadOff ==
    /\ upPc = [u \in Uploads |-> "off"]
    /\ upResp = [u \in Uploads |-> 0]
    /\ extracted = [u \in Uploads |-> 0]
    /\ docStatus = [u \in Uploads |-> "none"]
    /\ statusLog = [u \in Uploads |-> <<>>]
    /\ procPc = [u \in Uploads |-> "none"]
    /\ entities = [u \in Uploads |-> 0]
    /\ saved = [u \in Uploads |-> 0]
    /\ documentsUsed = 0
    /\ incremented = {}
    /\ usageLogged = {}
    /\ dbReachable = TRUE

UploadInit ==
    /\ upPc = [u \in Uploads |-> "start"]
    /\ upResp = [u \in Uploads |-> 0]
    /\ extracted = [u \in Uploads |-> 0]
    /\ docStatus = [u \in Uploads |-> "none"]
    /\ statusLog = [u \in Uploads |-> <<>>]
    /\ procPc = [u \in Uploads |-> "none"]
    /\ entities = [u \in Uploads |-> 0]
    /\ saved = [u \in Uploads |-> 0]
    /\ documentsUsed \in 0..DocumentsLimit
    /\ incremented = {}
    /\ usageLogged = {}
    /\ dbReachable \in BOOLEAN

NextProcessing(u) ==
    \/ ProcRun(u)
    \/ ProcComplete(u)
    \/ ProcEntity(u)
    \/ ProcCatch(u)

NextUpload ==
    \E u \in Uploads :
       \/ UpCheck(u)
       \/ UpCreate(u)
       \/ UpStore(u)
       \/ UpFileUrl(u)
       \/ UpIncrement(u)
       \/ UpUsage(u)
       \/ NextProcessing(u)

----------------------------------------------------------------------------
(* The middleware as a whole: any pathname the matcher hands to it *)

ProtectedRoutes == {"/dashboard", "/settings", "/billing",
                    "/api/queries", "/api/analytics", "/api/admin"}

PublicRoutes == {"/", "/login", "/signup", "/pricing", "/docs",
                 "/api/auth", "/api/webhooks"}

\* request.nextUrl.pathname
Pathnames == ProtectedRoutes \cup
             {"/dashboard/team", "/api/admin/users", "/", "/login", "/pricing",
              "/api/auth/session", "/api/chat", "/about"}

Methods == {"GET", "POST", "OPTIONS"}

\* getToken: null, or the session token of a signed-in user
Tokens == {<<>>, <<[sub |-> "u1", email |-> "a@orgA", organizationId |-> "orgA"]>>}

\* NextResponse.next(), with the X-User-* headers when a token was read
PassThrough(userHeaders) ==
    [next |-> TRUE, status |-> 0, error |-> "", location |-> <<>>, user |-> userHeaders]

\* NextResponse.json(..., { status }) and new Response(null, { status })
Answer(status, msg) ==
    [next |-> FALSE, status |-> status, error |-> msg, location |-> <<>>, user |-> <<>>]

\* lines 91-93: NextResponse.redirect(loginUrl), callbackUrl = request.url
RedirectToLogin(url) ==
    [next |-> FALSE, status |-> 307, error |-> "",
     location |-> <<[pathname |-> "/login", callbackUrl |-> url]>>, user |-> <<>>]

NoMwRequest == [pathname |-> "", method |-> "", xApiKey |-> <<>>,
                authorization |-> <<>>, token |-> <<>>]

\* lines 32-108
Middleware(r) ==
    IF StartsWith(r.pathname, "/api/")
       THEN LET m == ApiMiddleware(r.pathname, r.method, r.xApiKey, r.authorization)
            IN  IF m.next THEN PassThrough(<<>>) ELSE Answer(m.status, m.error)
    ELSE IF \E route \in PublicRoutes : StartsWith(r.pathname, route)
       THEN PassThrough(<<>>)
    ELSE IF \E route \in ProtectedRoutes : StartsWith(r.pathname, route)
       THEN IF r.token = <<>>
               THEN RedirectToLogin(r.pathname)
               ELSE PassThrough(<<[id |-> r.token[1].sub, email |-> r.token[1].email,
                                   organizationId |-> r.token[1].organizationId]>>)
    ELSE PassThrough(<<>>)

\* a request reaches the middleware
MwArrive ==
    /\ mwPc = "idle"
    /\ \E p \in Pathnames, m \in Methods, x \in XApiKeyHeaders,
          a \in AuthorizationHeaders, t \in Tokens :
          mwReq' = [pathname |-> p, method |-> m, xApiKey |-> x,
                    authorization |-> a, token |-> t]
    /\ mwPc' = "running"
    /\ mwRes' = <<>>
    /\ UNCHANGED <<coreVars, upVars, sqlVars, uiVars>>

\* the middleware returns
MwReturn ==
    /\ mwPc = "running"
    /\ mwRes' = <<Middleware(mwReq)>>
    /\ mwPc' = "idle"
    /\ UNCHANGED mwReq
    /\ UNCHANGED <<coreVars, upVars, sqlVars, uiVars>>

MwOff == mwPc = "off" /\ mwReq = NoMwRequest /\ mwRes = <<>>

MwInit == mwPc = "idle" /\ mwReq = NoMwRequest /\ mwRes = <<>>

NextMiddleware == MwArrive \/ MwReturn

----------------------------------------------------------------------------
(* The usage tables: inserts into queries with the log_query_usage trigger,
   and check_usage_limit *)

MaxInserts == 2
MaxQueriesPerMonth == 1
Unlimited == -1

Sessions == {"s1", "s2"}

\* the rows of `organizations`, by id
Organizations == [demo |-> [plan |-> "pro", max_queries_per_month |-> MaxQueriesPerMonth],
                  enterprise |-> [plan |-> "enterprise", max_queries_per_month |-> Unlimited]]

OrgIds == DOMAIN Organizations

\* created_at values; NOW() lies in month 11
Timestamps == {[month |-> 10, day |-> 31, hour |-> 23],
               [month |-> 11, day |-> 1, hour |-> 0],
               [month |-> 11, day |-> 1, hour |-> 9]}

Now == [month |-> 11, day |-> 1, hour |-> 9]

\* DATE(created_at)
Date(ts) == [month |-> ts.month, day |-> ts.day]

\* DATE_TRUNC('month', ts)
MonthStart(ts) == [month |-> ts.month, day |-> 1, hour |-> 0]

\* a >= b on timestamps
NotBefore(a, b) ==
    \/ a.month > b.month
    \/ a.month = b.month /\ a.day > b.day
    \/ a.month = b.month /\ a.day = b.day /\ a.hour >= b.hour

\* cost_cents: NULL or a number of cents
Costs == {<<>>, <<3>>}

QueryRows == [organization_id : OrgIds, created_at : Timestamps,
              cost_cents : Costs, status : {"completed", "failed"}]

AggregationKeys == OrgIds \X {Date(ts) : ts \in Timestamps}

\* COALESCE(v, d)
Coalesce(v, d) == IF v = <<>> THEN d ELSE v[1]

RECURSIVE SumOver(_, _)
SumOver(S, f) ==
    IF S = {} THEN 0
    ELSE LET x == CHOOSE y \in S : TRUE IN f[x] + SumOver(S \ {x}, f)

\* (mutant) a plain INSERT, without the ON CONFLICT clause
InsertOnly(aggs, new) ==
    LET k == <<new.organization_id, Date(new.created_at)>>
    IN  [aggs EXCEPT ![k] = Append(@, [query_count |-> 1,
                                       total_cost_cents |-> Coalesce(new.cost_cents, 0)])]

\* lines 193-198: INSERT ... ON CONFLICT (organization_id, date) DO UPDATE
Upsert(aggs, new) ==
    LET k == <<new.organization_id, Date(new.created_at)>>
    IN  IF aggs[k] = <<>>
           THEN [aggs EXCEPT ![k] = <<[query_count |-> 1,
                                       total_cost_cents |-> Coalesce(new.cost_cents, 0)]>>]
           ELSE [aggs EXCEPT ![k][1] =
                    [query_count |-> @.query_count + 1,
                     total_cost_cents |-> @.total_cost_cents + Coalesce(new.cost_cents, 0)]]

\* lines 163-186
check_usage_limit(org_id) ==
    IF org_id \notin OrgIds THEN FALSE
    ELSE LET counted == {r \in QueryRows :
                            /\ r.organization_id = org_id
                            /\ NotBefore(r.created_at, MonthStart(Now))
                            /\ r.status = "completed"}
             current_usage == SumOver(counted, queries)
         IN  current_usage < Organizations[org_id].max_queries_per_month

\* the row lock another open transaction holds on the aggregation row of `row`
Locked(s, row) ==
    \E t \in Sessions \ {s} :
        /\ sqlPc[t] = "inserted"
        /\ sqlRow[t][1].organization_id = row.organization_id
        /\ Date(sqlRow[t][1].created_at) = Date(row.created_at)

\* INSERT INTO queries in a session; the AFTER INSERT trigger runs inside the
\* statement and waits while another transaction holds the aggregation row
SqlInsert(s) ==
    /\ sqlPc[s] = "idle"
    /\ inserted < MaxInserts
    /\ \E row \in QueryRows :
          /\ ~Locked(s, row)
          /\ sqlRow' = [sqlRow EXCEPT ![s] = <<row>>]
    /\ sqlPc' = [sqlPc EXCEPT ![s] = "inserted"]
    /\ inserted' = inserted + 1
    /\ UNCHANGED <<queries, usage_aggregations, lastCheck>>
    /\ UNCHANGED <<coreVars, upVars, mwVars, uiVars>>

\* COMMIT: the row and the trigger's write become visible together
SqlCommit(s) ==
    /\ sqlPc[s] = "inserted"
    /\ queries' = [queries EXCEPT ![sqlRow[s][1]] = @ + 1]
    /\ usage_aggregations' = Upsert(usage_aggregations, sqlRow[s][1])
    /\ sqlPc' = [sqlPc EXCEPT ![s] = "idle"]
    /\ sqlRow' = [sqlRow EXCEPT ![s] = <<>>]
    /\ UNCHANGED <<inserted, lastCheck>>
    /\ UNCHANGED <<coreVars, upVars, mwVars, uiVars>>

\* ROLLBACK: neither write survives
SqlRollback(s) ==
    /\ sqlPc[s] = "inserted"
    /\ sqlPc' = [sqlPc EXCEPT ![s] = "idle"]
    /\ sqlRow' = [sqlRow EXCEPT ![s] = <<>>]
    /\ UNCHANGED <<queries, usage_aggregations, inserted, lastCheck>>
    /\ UNCHANGED <<coreVars, upVars, mwVars, uiVars>>

\* SELECT check_usage_limit(org_id)
SqlCheck ==
    /\ \E org_id \in OrgIds \cup {"unknown"} :
          lastCheck' = <<[org_id |-> org_id, result |-> check_usage_limit(org_id)]>>
    /\ UNCHANGED <<sqlPc, sqlRow, queries, usage_aggregations, inserted>>
    /\ UNCHANGED <<coreVars, upVars, mwVars, uiVars>>

SqlTables ==
    /\ sqlRow = [s \in Sessions |-> <<>>]
    /\ queries = [r \in QueryRows |-> 0]
    /\ usage_aggregations = [k \in AggregationKeys |-> <<>>]
    /\ inserted = 0
    /\ lastCheck = <<>>

SqlOff == sqlPc = [s \in Sessions |-> "off"] /\ SqlTables

\* the schema as created: no query has been logged
SqlInit == sqlPc = [s \in Sessions |-> "idle"] /\ SqlTables

NextUsage ==
    \/ \E s \in Sessions : SqlInsert(s) \/ SqlCommit(s) \/ SqlRollback(s)
    \/ SqlCheck

----------------------------------------------------------------------------
(* The chat interface: handleSubmit and the client-side processQuery *)

MaxTurns == 3

\* values of the input box: empty, blank, a question
Inputs == {"", "  ", "What is TLA+?"}

\* String.prototype.trim on those values
Trim(str) == IF str = "  " THEN "" ELSE str

\* how the fetch of /api/chat can end
FetchOutcomes == {"ok", "okWithoutAnswer", "httpError", "networkError", "invalidJson"}

UserMessage(content) == [role |-> "user", content |-> content, error |-> FALSE]

AssistantMessage(content, error) == [role |-> "assistant", content |-> content, error |-> error]

\* lines 65-103: the parsed body on 2xx, the fallback object otherwise
ClientProcessQuery(outcome) ==
    CASE outcome = "ok" -> [llmResponse |-> <<"answer">>, error |-> <<>>]
      [] outcome = "okWithoutAnswer" -> [llmResponse |-> <<>>, error |-> <<>>]
      [] OTHER -> [llmResponse |-> <<"fallback">>, error |-> <<TRUE>>]

\* lines 180-198: the guard (a submit that fails it returns and changes nothing),
\* the user message, isLoading; React renders before the next event is handled
UiSubmit ==
    /\ accepted < MaxTurns
    /\ Trim(input) /= ""
    /\ ~shownLoading
    /\ messages' = Append(messages, UserMessage(input))
    /\ input' = ""
    /\ isLoading' = TRUE
    /\ shownLoading' = TRUE
    /\ accepted' = accepted + 1
    /\ uiPc' = "delay"
    /\ apiResponse' = <<>>
    /\ UNCHANGED <<coreVars, upVars, mwVars, sqlVars>>

\* onChange, Escape and the clear button; the box is disabled while loading
UiType ==
    /\ ~shownLoading
    /\ \E str \in Inputs : input' = str
    /\ input' /= input
    /\ UNCHANGED <<uiPc, messages, isLoading, shownLoading, apiResponse, accepted>>
    /\ UNCHANGED <<coreVars, upVars, mwVars, sqlVars>>

\* lines 199-202: the delay has passed and processQuery has returned
UiFetch ==
    /\ uiPc = "delay"
    /\ \E outcome \in FetchOutcomes : apiResponse' = <<ClientProcessQuery(outcome)>>
    /\ uiPc' = IF apiResponse'[1].llmResponse = <<>> THEN "catch" ELSE "typing"
    /\ UNCHANGED <<messages, input, isLoading, shownLoading, accepted>>
    /\ UNCHANGED <<coreVars, upVars, mwVars, sqlVars>>

\* a state update made after an await, followed by `finally`
UiSettle(message) ==
    /\ messages' = Append(messages, message)
    /\ isLoading' = FALSE
    /\ uiPc' = "idle"
    /\ UNCHANGED <<input, shownLoading, apiResponse, accepted>>
    /\ UNCHANGED <<coreVars, upVars, mwVars, sqlVars>>

\* lines 204-223 and 234-237: the assistant message, then finally
UiAnswer ==
    /\ uiPc = "typing"
    /\ UiSettle(AssistantMessage(apiResponse[1].llmResponse[1],
                                 IF apiResponse[1].error = <<>> THEN FALSE
                                 ELSE apiResponse[1].error[1]))

\* (mutant) the catch only logs
UiCatchLogOnly ==
    /\ uiPc = "catch"
    /\ isLoading' = FALSE
    /\ uiPc' = "idle"
    /\ UNCHANGED <<messages, input, shownLoading, apiResponse, accepted>>
    /\ UNCHANGED <<coreVars, upVars, mwVars, sqlVars>>

\* lines 224-237: reading llmResponse.length threw; the apology, then finally
UiCatch ==
    /\ uiPc = "catch"
    /\ UiSettle(AssistantMessage("apology", TRUE))

\* React renders the component with the current state
UiRender ==
    /\ shownLoading /= isLoading
    /\ shownLoading' = isLoading
    /\ UNCHANGED <<uiPc, messages, input, isLoading, apiResponse, accepted>>
    /\ UNCHANGED <<coreVars, upVars, mwVars, sqlVars>>

UiState ==
    /\ messages = <<>>
    /\ input = ""
    /\ isLoading = FALSE
    /\ shownLoading = FALSE
    /\ apiResponse = <<>>
    /\ accepted = 0

UiOff == uiPc = "off" /\ UiState

\* lines 106-108: the useState initial values
UiInit == uiPc = "idle" /\ UiState

\* what runs without the user: timers, the fetch, React's render
NextUiProgress == UiFetch \/ UiAnswer \/ UiCatch \/ UiRender

NextUi == UiSubmit \/ UiType \/ NextUiProgress


----------------------------------------------------------------------------
(* Specifications *)

ChatOff ==
    /\ chatPc = "off"
    /\ req = BadBody
    /\ user = <<>>
    /\ organizationId = <<>>
    /\ documents = <<>>
    /\ fullContext = 0
    /\ promptContext = 0
    /\ systemPrompt = "none"
    /\ answer = <<>>
    /\ calls = <<>>
    /\ response = NoResponse
    /\ chatErr = ""
    /\ thrown = FALSE
    /\ openaiKey = TRUE
    /\ served = 0
    /\ failed = {}
    /\ configFailedBefore = FALSE
    /\ apiKey = <<>>
    /\ contextParts = <<>>

CoreOff == ChatOff /\ PqOff /\ AdapterOff /\ ScOff /\ AsmOff

LaterOff == UploadOff /\ MwOff /\ SqlOff /\ UiOff

\* one call into the core: a POST /chat handler or a processQuery
Init ==
    \/ InitChat /\ PqOff /\ AdapterOff /\ ScOff /\ AsmOff /\ LaterOff
    \/ ChatOff /\ InitQuery /\ AdapterOff /\ ScOff /\ AsmOff /\ LaterOff

Next == NextChat \/ NextQuery

Spec == Init /\ [][Next]_vars

\* one call of a search adapter, its inputs drawn from the bounded sets
InitAdapters == ChatOff /\ PqOff /\ AdapterInit /\ ScOff /\ AsmOff /\ LaterOff

NextAdapters == AdapterRun

SpecAdapters == InitAdapters /\ [][NextAdapters]_vars

\* requests for /api/chat as the deployment meets them
InitGateway == InitChat /\ PqOff /\ AdapterOff /\ ScOff /\ AsmOff /\ LaterOff

SpecGateway == InitGateway /\ [][NextGateway]_vars

\* one call of streamingChatCompletion, with or without a sink
InitStreaming == ChatOff /\ PqOff /\ AdapterOff /\ ScInit /\ AsmOff /\ LaterOff

SpecStreaming == InitStreaming /\ [][NextStreaming]_vars

\* one context assembly, its inputs drawn from the bounded sets
InitAssemble == ChatOff /\ PqOff /\ AdapterOff /\ ScOff /\ AsmInit /\ LaterOff

NextAssemble == AsmRun

SpecAssemble == InitAssemble /\ [][NextAssemble]_vars

\* two concurrent uploads of one organization, database failures allowed
InitUpload == CoreOff /\ UploadInit /\ MwOff /\ SqlOff /\ UiOff

SpecUpload == InitUpload /\ [][NextUpload]_vars

\* the same with a database that stays reachable, every started processing being
\* run on (the event loop resumes each pending continuation)
InitUploadLive == InitUpload /\ dbReachable

InitMiddleware == CoreOff /\ UploadOff /\ MwInit /\ SqlOff /\ UiOff

SpecMiddleware == InitMiddleware /\ [][NextMiddleware]_vars

InitUsage == CoreOff /\ UploadOff /\ MwOff /\ SqlInit /\ UiOff

SpecUsage == InitUsage /\ [][NextUsage]_vars

InitUi == CoreOff /\ UploadOff /\ MwOff /\ SqlOff /\ UiInit

SpecUi == InitUi /\ [][NextUi]_vars /\ WF_vars(NextUiProgress)

SpecUploadLive ==
    /\ InitUploadLive
    /\ [][NextUpload]_vars
    /\ \A u \in Uploads : WF_vars(NextProcessing(u))

----------------------------------------------------------------------------
(* Properties *)

ChatDone == chatPc = "done"
QueryDone == pqPc = "done"

\* a body field that carries a non-empty text
HasText(opt) == opt /= <<>> /\ opt[1] /= ""

InvalidLinkIn(o) ==
    o.kind = "array" /\ \E i \in 1..Len(o.items) : ~(o.items[i].link /= <<>> /\ o.items[i].link[1].url)

\* C1: whenever the generation backend raises, the result returned to the caller
\* has its error set and a non-empty llmResponse, in POST /chat and in processQuery.
C1_GeneratorFailureIsolation ==
    /\ (ChatDone /\ "generation" \in failed) =>
          (response.error /= <<>> /\ HasText(response.llmResponse))
    /\ (QueryDone /\ backendRaised) =>
          (pqResult.error /= <<>> /\ pqResult.llmResponse /= "")

\* C2: whatever collaborator fails, POST /chat ends with an HTTP response whose body
\* carries a message (status 500 when the failure reaches the generic catch branch),
\* processQuery ends with a SearchResponse, no step in between is stuck, and no
\* exception leaves either of them.
C2_NoExceptionEscapes ==
    /\ ~thrown
    /\ ~pqThrown
    /\ ChatDone =>
          /\ response.status \in {200, 400, 500}
          /\ HasText(response.llmResponse) \/ HasText(response.error)
    /\ (ChatDone /\ failed \cap {"body", "docStore", "generation", "usage"} /= {}
                 /\ ~Includes(chatErr, "OpenAI API key")) =>
          (response.status = 500 /\ HasText(response.error))
    /\ QueryDone => pqResult.returned
    /\ chatPc \in {"auth", "parse", "docs", "prompt", "gen", "usage", "respond", "catch"}
          => ENABLED NextChat
    /\ pqPc \in {"gather", "assemble", "generate", "catch"} => ENABLED NextQuery

C2_Witness ==
    /\ ChatDone
    /\ "session" \in failed
    /\ "generation" \in failed
    /\ response.status = 500
    /\ ~thrown

\* the request's query is missing, the empty string, or not a string
QueryRejectable(r) == r.bodyOk /\ (r.query.typ /= "string" \/ r.query.v = 0)

\* C3 (as stated): a request with a missing, empty or non-string query is rejected
\* with 400 before any collaborator, the session lookup included, is invoked.
C3_ValidationBeforeAnyCollaborator ==
    QueryRejectable(req) =>
        /\ calls = <<>>
        /\ ChatDone => response.status = 400

\* C3 (amended): such a request is rejected with 400 before the document store, the
\* generation backend or the usage recorder is invoked; the session lookup is the
\* one collaborator invoked before the validation.
C3_ValidationBeforeStoreAndGeneration ==
    QueryRejectable(req) =>
        /\ calls \in {<<>>, <<"session">>}
        /\ ChatDone => (response.status = 400 /\ calls = <<"session">>)
        /\ chatPc \notin {"docs", "prompt", "gen", "usage", "respond", "catch"}

C3_Witness ==
    /\ ChatDone
    /\ req.bodyOk
    /\ req.query = [typ |-> "number", v |-> 1]
    /\ response.status = 400
    /\ calls = <<"session">>

\* a provider failure: non-2xx, network error, or a malformed payload
ProviderFailure(o) == o.kind \in FailureKinds \/ InvalidLinkIn(o)

\* C4 (as stated): on every provider failure, a result with an invalid link included,
\* each of the three adapters returns the empty sequence and never throws.
C4_AdaptersEmptyOnEveryFailure ==
    (adPc = "done" /\ ProviderFailure(adCall.outcome)) =>
        (~adResult.threw /\ adResult.value = <<>>)

\* C4 (amended): no adapter ever throws; each returns the empty sequence on a non-2xx
\* status, a rejected fetch and a body that holds no result array; getSearchResults
\* also returns it when a result's link is not a valid URL, while getImages and
\* getVideos return the first entries of the array as they are.
C4_AdaptersNeverThrow ==
    adPc = "done" =>
        /\ ~adResult.threw
        /\ adCall.outcome.kind \in FailureKinds => adResult.value = <<>>
        /\ (adCall.fn = "web" /\ InvalidLinkIn(adCall.outcome)) => adResult.value = <<>>
        /\ (adCall.fn /= "web" /\ adCall.provider = "serper"
                /\ adCall.outcome.kind = "array") =>
              Len(adResult.value) = Min(Len(adCall.outcome.items), MediaLimit)

C4_Witness ==
    /\ adPc = "done"
    /\ adCall.fn = "web"
    /\ InvalidLinkIn(adCall.outcome)
    /\ Len(adCall.outcome.items) > 1
    /\ adResult = [threw |-> FALSE, value |-> <<>>]

\* C5: with the search provider unreachable and generation succeeding, processQuery
\* returns searchResults = [] and no error; no failure of a search call keeps the
\* pipeline from the generation step (only a missing inference key does).
C5_UnreachableProviderStillAnswers ==
    /\ (QueryDone /\ ~providerUp /\ generations = 1 /\ ~backendRaised) =>
          /\ pqResult.returned
          /\ pqResult.searchResults = <<>>
          /\ pqResult.error = <<>>
          /\ pqResult.llmResponse /= ""
    /\ pqPc = "catch" => ~inferenceKey
    /\ (QueryDone /\ inferenceKey) => generations = 1

C5_Witness ==
    /\ QueryDone
    /\ ~providerUp
    /\ generations = 1
    /\ ~backendRaised
    /\ pqResult.searchResults = <<>>
    /\ pqResult.llmResponse = "Paris is the capital of France."

\* C6: a failed document lookup in POST /chat is replaced by an empty document set;
\* the request goes on to generation and no error response is returned for it.
C6_DocumentStoreFailureRecovered ==
    (ChatDone /\ "docStore" \in failed) =>
        /\ response.error = <<>>
        /\ response.status = 200
        /\ response.sources = <<EmptyArray>>

\* C7: the context handed to the generation backend is at most 8,000 characters, in
\* POST /chat and in processQuery/streamingChatCompletion.
C7_TruncationInvariant ==
    /\ promptContext <= MaxContextChars
    /\ context <= MaxContextChars

\* C8: processQuery assembles the context and starts the generation only after all
\* three search calls have settled, in whatever order they do, and returns each
\* call's own result in its own field.
C8_FanOutJoin ==
    /\ (pqPc \in {"assemble", "generate"} \/ generations > 0 \/ vectorResults /= <<>>) =>
          /\ \A c \in SearchCalls : callState[c] = "settled"
          /\ Len(settleOrder) = Cardinality(SearchCalls)
    /\ (QueryDone /\ pqResult.error = <<>>) =>
          /\ pqResult.searchResults = callResult["web"]
          /\ pqResult.images = callResult["images"]
          /\ pqResult.videos = callResult["videos"]
          /\ \A c \in SearchCalls : \E i \in 1..Len(settleOrder) : settleOrder[i] = c

C8_Witness ==
    /\ QueryDone
    /\ settleOrder = <<"videos", "images", "web">>
    /\ Len(pqResult.searchResults) = 2
    /\ Len(pqResult.images) = 1
    /\ pqResult.videos = <<>>
    /\ pqResult.error = <<>>

\* C9: a failure of the usage write never changes the response of a request whose
\* answer was generated: the response is the 200 answer all the same.
C9_UsageWriteNeverChangesResponse ==
    (ChatDone /\ answer /= <<>>) =>
        (response.status = 200 /\ response.llmResponse = answer)

\* C10 (as stated): a request that finds no OPENAI_API_KEY is answered with a
\* 500-class status and a message of service unavailability.
C10_MissingKeyIs500 ==
    (ChatDone /\ "config" \in failed) =>
        /\ response.status >= 500
        /\ HasText(response.llmResponse) \/ HasText(response.error)

\* C10 (amended): a valid request that reaches the generation step without an
\* OPENAI_API_KEY is answered with status 200 and the service-unavailable apology as
\* llmResponse, with no sources; a later request made with the key set is answered
\* as usual.
C10_MissingKeyFallback ==
    /\ (ChatDone /\ "config" \in failed) =>
          /\ response.status = 200
          /\ response.llmResponse = <<ServiceUnavailable>>
          /\ response.error = <<>>
          /\ response.sources = <<EmptyArray>>
          /\ ~thrown
    /\ (ChatDone /\ configFailedBefore /\ failed \subseteq {"session"}
                 /\ req.bodyOk /\ req.query.typ = "string" /\ req.query.v > 0) =>
          (response.status = 200 /\ response.llmResponse = answer /\ answer /= <<>>)

C10_Witness ==
    /\ ChatDone
    /\ configFailedBefore
    /\ failed = {}
    /\ response.status = 200
    /\ response.llmResponse = <<"Paris is the capital of France.">>

\* C11: once the generation backend has failed, whether the completion request
\* was rejected or the stream broke off in its middle, with or without a sink,
\* streamingChatCompletion never raises and what it returns is the fixed apology.
C11_BackendErrorReturnsApology ==
    scRaised /= "none" =>
        /\ ~scResult.threw
        /\ scPc = "done" => scResult = Resolved(GenerationError)

\* a stream that broke off after two chunks had been delivered
C11_Witness ==
    /\ scPc = "done"
    /\ streamable
    /\ scRaised = "stream"
    /\ Len(arrived) >= 2
    /\ fullResponse /= ""
    /\ scResult.value = GenerationError

NonEmptyDelta(delta) == delta /= <<>> /\ delta[1] /= ""

\* the non-empty contents among the chunks received so far, in arrival order
ReceivedText == 
    LET kept == SelectSeq(arrived, NonEmptyDelta)
    IN  [i \in 1..Len(kept) |-> kept[i][1]]

\* C17: at every moment of a streaming call the sink holds exactly the non-empty
\* chunks received so far, each once and in arrival order; the only other thing
\* the sink ever gets is the apology, after them, when the backend has failed.
C17_ChunksDeliveredInArrivalOrder ==
    sink = ReceivedText \o (IF streamable /\ scRaised /= "none" /\ scPc = "done"
                              THEN <<GenerationError>> ELSE <<>>)

\* a finished stream of three chunks, two of them non-empty and different
C17_Witness ==
    /\ scPc = "done"
    /\ streamable
    /\ scRaised = "none"
    /\ Len(arrived) = 3
    /\ Len(sink) = 2
    /\ sink[1] /= sink[2]
    /\ scResult = Resolved(sink[1] \o sink[2])

\* C12: the assembled context is the first min(n, 4) search results in the order
\* the provider returned them (content = snippet, url = link, title = title),
\* followed, exactly when a non-empty documentContext was supplied, by one last
\* entry titled "Uploaded Document" with the url "uploaded-document".
C12_ContextAssemblyOrder ==
    asmPc = "done" =>
        LET results == asmCall.searchResults
            doc == asmCall.documentContext
            k == IF Len(results) < 4 THEN Len(results) ELSE 4
            uploaded == doc /= <<>> /\ doc[1] > 0
        IN  /\ Len(asmResult) = k + (IF uploaded THEN 1 ELSE 0)
            /\ \A i \in 1..k :
                  /\ asmResult[i].content = results[i].snippet
                  /\ asmResult[i].url = results[i].link
                  /\ asmResult[i].title = results[i].title
            /\ uploaded =>
                  /\ asmResult[k + 1].title = <<Lit("Uploaded Document")>>
                  /\ asmResult[k + 1].url = <<Lit("uploaded-document")>>
                  /\ asmResult[k + 1].content = <<Text(doc[1])>>

\* six different results in descending order and an uploaded document
C12_Witness ==
    /\ asmPc = "done"
    /\ asmCall.searchResults = Reverse(Numbered(6))
    /\ asmCall.documentContext = <<ShortText>>
    /\ Len(asmResult) = 5

\* the request went through the middleware with no API key, or with one that is
\* not among the valid keys
CredentialRefused ==
    /\ chatPc \notin {"off", "idle", "middleware"}
    /\ apiKey = <<>> \/ apiKey[1] = "" \/ apiKey[1] \notin ValidKeys

PlainQuestion(r) ==
    /\ r.bodyOk
    /\ r.query.typ = "string" /\ r.query.v > 0
    /\ r.documentIds \in {<<>>, <<EmptyArray>>}
    /\ r.documentContext = <<>>

GenerationCalls == Cardinality({i \in 1..Len(calls) : calls[i] = "generation"})

\* C13 (as stated): every such request ends with an empty document context and with
\* the generation backend invoked exactly once, under the general-assistant prompt.
C13_PlainQuestionAlwaysGenerated ==
    (ChatDone /\ PlainQuestion(req)) =>
        /\ fullContext = 0
        /\ promptContext = 0
        /\ systemPrompt = "general"
        /\ GenerationCalls = 1

\* C13 (amended): the same, for a deployment whose OPENAI_API_KEY is set; without
\* the key the context is empty as well, but the backend is not invoked at all.
C13_PlainQuestionGeneratedWhenConfigured ==
    PlainQuestion(req) =>
        /\ GenerationCalls <= 1
        /\ ChatDone =>
              /\ fullContext = 0
              /\ promptContext = 0
              /\ systemPrompt = "general"
              /\ documents = <<>>
              /\ GenerationCalls = (IF openaiKey THEN 1 ELSE 0)

C13_Witness ==
    /\ ChatDone
    /\ PlainQuestion(req)
    /\ req.documentIds = <<EmptyArray>>
    /\ openaiKey
    /\ calls = <<"session", "generation">>
    /\ systemPrompt = "general"
    /\ response.status = 200
    /\ response.llmResponse = <<"Paris is the capital of France.">>

\* C14: when the document store returned nothing (the handler has no search provider)
\* and the generation call succeeded, the response carries a non-empty llmResponse,
\* also for empty or null backend content, and sources = searchResults = []; on the
\* processQuery path an empty search and a successful generation give a non-empty
\* llmResponse and searchResults = [].
C14_EmptyRetrievalStillAnswers ==
    /\ (ChatDone /\ documents = <<>> /\ answer /= <<>>) =>
          /\ HasText(response.llmResponse)
          /\ response.sources = <<EmptyArray>>
          /\ response.searchResults = <<EmptyArray>>
    /\ (QueryDone /\ generations = 1 /\ ~backendRaised /\ callResult["web"] = <<>>) =>
          /\ pqResult.llmResponse /= ""
          /\ pqResult.searchResults = <<>>

\* the fields the response lists for one fetched document
Reference(doc) ==
    [id |-> doc.id, name |-> doc.originalName, category |-> doc.category,
     summary |-> doc.summary]

\* C15 (as stated): whenever a response of POST /chat has sources, they are one entry
\* per fetched document, in fetch order, with id, name = originalName, category and
\* summary ([] when nothing was fetched).
C15_SourcesMirrorDocuments ==
    (ChatDone /\ response.sources /= <<>>) =>
        /\ Len(response.sources[1]) = Len(documents)
        /\ \A i \in 1..Len(documents) : response.sources[1][i] = Reference(documents[i])

\* C15 (amended): that holds for the response that carries a generated answer; the
\* service-unavailable fallback has sources = [] whatever was fetched, and an error
\* response has no sources.
C15_AnswerSourcesMirrorDocuments ==
    /\ (ChatDone /\ response.status = 200 /\ chatErr = "") =>
          /\ response.sources /= <<>>
          /\ Len(response.sources[1]) = Len(documents)
          /\ \A i \in 1..Len(documents) :
                response.sources[1][i] = Reference(documents[i])
    /\ (ChatDone /\ response.status = 200 /\ chatErr /= "") =>
          response.sources = <<EmptyArray>>
    /\ (ChatDone /\ response.status /= 200) => response.sources = <<>>

\* two documents of the caller's organisation were fetched and are listed in order
C15_Witness ==
    /\ ChatDone
    /\ response.status = 200
    /\ chatErr = ""
    /\ Len(documents) = 2
    /\ response.sources[1][1].id = "d1"
    /\ response.sources[1][2].name = "scan.png"

HostOf(p) == IF p = "serper" THEN SerperHost ELSE BraveHost

C19_MediaAtMostFour ==
    (adPc = "done" /\ adCall.fn \in {"images", "videos"}) =>
        /\ ~adResult.threw
        /\ Len(adResult.value) <= 4

\* a payload of more than four entries, cut down to four
C19_Witness ==
    /\ adPc = "done"
    /\ adCall.fn = "videos"
    /\ adCall.provider = "serper"
    /\ adCall.outcome.kind = "array"
    /\ Len(adCall.outcome.items) > 4
    /\ Len(adResult.value) = 4

\* C20 (as stated): for every provider payload getSearchResults returns at most 10
\* SearchResults.
C20_WebAtMostTen ==
    (adPc = "done" /\ adCall.fn = "web") => Len(adResult.value) <= 10

\* C20 (amended): getSearchResults returns either nothing or one SearchResult per
\* entry of the payload, in the payload's order; it asks for a page of 10 and so
\* returns at most 10 whenever the payload holds no more than the page asked for.
C20_WebBoundedByPayload ==
    (adPc = "done" /\ adCall.fn = "web") =>
        LET items == adCall.outcome.items
            value == adResult.value
        IN  /\ ~adResult.threw
            /\ value = <<>> \/ Len(value) = Len(items)
            /\ \A i \in 1..Len(value) :
                  /\ value[i].title = items[i].title
                  /\ value[i].link = items[i].link
                  /\ value[i].snippet = items[i].text
            /\ Len(items) <= PageSize => Len(value) <= PageSize

\* two different entries come back in the payload's order
C20_Witness ==
    /\ adPc = "done"
    /\ adCall.fn = "web"
    /\ adCall.provider = "brave"
    /\ adCall.outcome.kind = "array"
    /\ Len(adResult.value) = 2
    /\ adResult.value[1].snippet /= adResult.value[2].snippet

\* C21: every document that enters the context or the sources of a POST /chat
\* response belongs to the caller's organization, is completed, and is named in the
\* request's documentIds; without an authenticated organization the document store
\* is never read and whatever sources the response has are [].
C21_TenantIsolation ==
    /\ \A i \in 1..Len(documents) :
          /\ organizationId /= <<>>
          /\ documents[i].organizationId = organizationId[1]
          /\ documents[i].status = "completed"
          /\ \E k \in 1..Len(DocumentIdsOf(req)) : DocumentIdsOf(req)[k] = documents[i].id
    /\ \A i \in 1..Len(contextParts) :
          contextParts[i] = "documentContext"
          \/ \E k \in 1..Len(documents) : documents[k].id = contextParts[i]
    /\ (ChatDone /\ response.sources /= <<>>) =>
          \A i \in 1..Len(response.sources[1]) :
             \E k \in 1..Len(documents) : documents[k].id = response.sources[1][i].id
    /\ (chatPc /= "off" /\ organizationId = <<>>) =>
          /\ \A i \in 1..Len(calls) : calls[i] /= "docStore"
          /\ documents = <<>>
          /\ response.sources \in {<<>>, <<EmptyArray>>}

\* a caller of orgB names a document of orgA next to its own and gets only its own
C21_Witness ==
    /\ ChatDone
    /\ organizationId = <<"orgB">>
    /\ DocumentIdsOf(req) = <<"d1", "d4">>
    /\ response.status = 200
    /\ Len(response.sources[1]) = 1
    /\ response.sources[1][1].id = "d4"
    /\ contextParts = <<"d4">>

\* C22: a non-empty documentContext of the request body is part of the context given
\* to the generation backend, with or without documentIds and whether or not they
\* match a completed document.
C22_DocumentContextAlwaysUsed ==
    (chatPc \in {"gen", "usage", "respond"} /\ ContextOrEmpty(req) > 0) =>
        /\ \E i \in 1..Len(contextParts) : contextParts[i] = "documentContext"
        /\ systemPrompt = "document"

\* C23: whatever the interleaving of the concurrent uploads of one organization,
\* documentsUsed never exceeds documentsLimit.
C23_QuotaNeverExceeded == documentsUsed <= DocumentsLimit

\* C24: the status of a document is written first as processing and changes at most
\* once, to completed or to failed; a completed document never becomes failed, and
\* every document that is completed has all of its extracted entities saved.
C24_StatusLifecycle ==
    \A u \in Uploads :
       /\ statusLog[u] \in {<<>>, <<"processing">>, <<"processing", "completed">>,
                            <<"processing", "failed">>}
       /\ docStatus[u] = "completed" => saved[u] = entities[u]

\* C25: an upload answered with an error status has left no document record, has not
\* incremented documentsUsed, has written no usage record and has started no
\* background processing.
C25_FailedUploadLeavesNothing ==
    \A u \in Uploads :
       upResp[u] \in {401, 400, 404, 403, 500} =>
          /\ docStatus[u] \in {"none", "deleted"}
          /\ u \notin incremented
          /\ u \notin usageLogged
          /\ procPc[u] = "none"

\* C26: with a database that stays reachable and a processor that returns or throws,
\* every document of an accepted upload leaves status processing for completed or
\* failed, and it ends as failed when fewer than 10 characters were extracted.
C26_ProcessingEnds ==
    \A u \in Uploads :
       /\ (upResp[u] = 200) ~> (procPc[u] = "done" /\ docStatus[u] \in {"completed", "failed"})
       /\ (upResp[u] = 200 /\ extracted[u] < 10) ~> [](docStatus[u] = "failed")

\* one accepted upload ended as failed for want of text, the other as completed with
\* its entities saved
C26_Witness ==
    /\ dbReachable
    /\ \A u \in Uploads : upResp[u] = 200 /\ procPc[u] = "done"
    /\ extracted["up1"] < 10 /\ docStatus["up1"] = "failed"
    /\ docStatus["up2"] = "completed" /\ saved["up2"] = MaxEntities

\* C27: a request without a session token to a protected route is never passed
\* through by the middleware, and a protected page route without a token is
\* redirected to /login with a callbackUrl.
C27_ProtectedNeedsSession ==
    (/\ mwRes /= <<>>
     /\ mwReq.token = <<>>
     /\ \E route \in ProtectedRoutes : StartsWith(mwReq.pathname, route)) =>
        /\ ~mwRes[1].next
        /\ ~StartsWith(mwReq.pathname, "/api/") =>
              /\ mwRes[1].location /= <<>>
              /\ mwRes[1].location[1].pathname = "/login"
              /\ mwRes[1].location[1].callbackUrl = mwReq.pathname

\* the committed queries of one organization on one date
QueriesOn(k) == {r \in QueryRows : r.organization_id = k[1] /\ Date(r.created_at) = k[2]}

CompletedThisMonth(org_id) ==
    SumOver({r \in QueryRows : /\ r.organization_id = org_id
                               /\ r.created_at.month = Now.month
                               /\ r.status = "completed"}, queries)

\* C28: check_usage_limit returns true for an existing organization exactly when
\* it is unlimited (max_queries_per_month = -1) or its completed queries of the
\* current month are fewer than max_queries_per_month; false for an unknown one.
C28_LimitCheck ==
    lastCheck /= <<>> =>
       LET org_id == lastCheck[1].org_id
       IN  lastCheck[1].result =
              (/\ org_id \in OrgIds
               /\ \/ Organizations[org_id].max_queries_per_month = Unlimited
                  \/ CompletedThisMonth(org_id) < Organizations[org_id].max_queries_per_month)

\* C29: for each (organization, date) that has queries there is exactly one
\* usage_aggregations row (none when it has no query); its query_count is the
\* number of those queries and its total_cost_cents the sum of their
\* cost_cents, null counted as 0.
C29_AggregationMatchesQueries ==
    \A k \in AggregationKeys :
       LET n == SumOver(QueriesOn(k), queries)
           cost == SumOver(QueriesOn(k),
                           [r \in QueryRows |-> queries[r] * Coalesce(r.cost_cents, 0)])
       IN  IF n = 0 THEN usage_aggregations[k] = <<>>
           ELSE /\ Len(usage_aggregations[k]) = 1
                /\ usage_aggregations[k][1].query_count = n
                /\ usage_aggregations[k][1].total_cost_cents = cost

\* two inserts of one organization on one date, one of them without a cost,
\* both committed
C29_Witness ==
    /\ inserted >= 2
    /\ sqlPc = [s \in Sessions |-> "idle"]
    /\ \E k \in AggregationKeys :
          /\ SumOver(QueriesOn(k), queries) = 2
          /\ \E r \in QueriesOn(k) : queries[r] > 0 /\ r.cost_cents = <<>>
          /\ \E r \in QueriesOn(k) : queries[r] > 0 /\ r.cost_cents /= <<>>
          /\ usage_aggregations[k][1].query_count = 2
          /\ usage_aggregations[k][1].total_cost_cents = 3

Alternating(ms) ==
    \A i \in 1..Len(ms) : ms[i].role = IF i % 2 = 1 THEN "user" ELSE "assistant"

\* C30: each accepted submit appends exactly one user message and is eventually
\* followed by exactly one assistant message, after which isLoading is false;
\* no second query starts while one is in flight; messages alternate
\* user/assistant.
C30_TurnTaking ==
    /\ [](/\ Alternating(messages)
          /\ Len(messages) = IF uiPc = "idle" THEN 2 * accepted ELSE 2 * accepted - 1
          /\ uiPc /= "idle" => isLoading)
    /\ [][accepted' = accepted + 1 =>
             uiPc = "idle" /\ messages' = Append(messages, UserMessage(input))]_vars
    /\ \A n \in 1..MaxTurns :
          (accepted = n /\ uiPc /= "idle") ~>
             (Len(messages) = 2 * n /\ messages[2 * n].role = "assistant" /\ ~isLoading)

\* two turns are over, the second one answered by the error-flagged fallback
C30_Witness ==
    /\ accepted = 2
    /\ uiPc = "idle"
    /\ ~isLoading
    /\ Len(messages) = 4
    /\ ~messages[2].error
    /\ messages[4].error /\ messages[4].content = "fallback"

====
